---- MODULE Spec2Model ----
(***************************************************************************)
(* A model of libcyphal's single threaded executor                         *)
(* (libcyphal/platform/single_threaded_executor.hpp) and of the publisher  *)
(* of the presentation layer.                                              *)
(*                                                                         *)
(* SingleThreadedExecutor keeps two trees over the same callback nodes:    *)
(* registered_nodes_ (keyed by callback id) and scheduled_nodes_ (ordered  *)
(* by execution time, a later insertion of an equal time being greater).   *)
(* spinOnce is a loop which calls user code; the user code may call back   *)
(* into the executor, so spinOnce is modelled step by step: pc tells where *)
(* the executor is ("idle": outside spinOnce, "loop": at the top of the    *)
(* while loop, "body": inside the function of callback cur).               *)
(***************************************************************************)
EXTENDS Integers, Sequences, FiniteSets, TLC

\* ------------------------------------------------------------ bounds
MaxCallbacks == 2
MaxTime == 2
MaxClock == 1
MaxInvocations == 2
MaxFacades == 2
MaxSends == 3
MaxPorts == 3
MaxAllocations == 4
MaxRequests == 2
MaxServed == 2
MaxTimeout == 2
MaxFrames == 2
MaxTerm == 1
MaxElectionTerm == 2
MaxWriteFailures == 1
MaxCampaigns == 3
MaxQueuedFrames == 3
MaxDescriptors == 3
MaxLogIndex == 1
TransferIdModulo == 4

\* TimePoint::min(): earlier than every time the clock can show.
TimePointMin == -1

Ids == 1..MaxCallbacks
Times == 0..MaxTime

\* The subjects of the publishers, the publisher facades the application holds and
\* the transfer ids on the wire.
Subjects == {7, 9}
Facades == 1..MaxFacades
TransferIds == 0..(TransferIdModulo - 1)
NoSubject == 0
NoTransferId == -1

\* The port ids of the RX sessions.
Ports == 1..MaxPorts

\* The requests a service client can have in flight at once.
Requests == 1..MaxRequests

\* The server's response timeout, in units of 100 ms: 1 s unless set otherwise.
DefaultResponseTimeout == 10
Timeouts == 1..MaxTimeout
Priorities == {"Fast", "Nominal"}
PublisherPriorities == {"Nominal", "Slow"}
Deadlines == {0, MaxTime}
NoFacadeCall == [op |-> "none", facade |-> 0, other |-> 0, priority |-> "Nominal",
                 deadline |-> 0]
NoMetadata == [priority |-> "none", deadline |-> 0]
NodeIds == {49, 50}
NoTransfer == [transfer_id |-> NoTransferId]

\* The media interfaces of a CAN transport, and the answers of IMedia::push.
Medias == {"can0", "can1"}
FramePriorities == {0, 1}
PushResults == {"accepted", "not_accepted", "failure"}
NoPush == [result |-> "none"]

\* The Raft cluster: the local server and the remote servers, all discovered.
LocalServer == 1
RemoteServers == {2, 3}
NoVote == 0
Terms == 0..MaxTerm
LogIndices == 0..MaxLogIndex
NoPendingFields == [prev_log_index |-> 0, num_entries |-> 0]
NoEntry == [index |-> 0, term |-> 0]
NoResponse == [handler |-> "none", state |-> "none"]
\* ServiceResponseDataStructure: a response is sent unless the handler disables it
ResponseEnabledByDefault == TRUE

NoRpcResponse ==
    [handler |-> "none", known |-> FALSE, request_term |-> 0, enabled |-> FALSE,
     term |-> 0, granted |-> FALSE, activity |-> FALSE]

\* AppendEntries::Request::entries holds one entry at most.
EntriesCapacity == 1

\* SocketCANInterfaceManager: the indices of interface_list_, the socket descriptors
\* the process can have open (0 is the standard input), and what openSocket can do:
\* fail to open a socket, close the socket it opened, or return it.
Interfaces == {0, 1}
Descriptors == 1..MaxDescriptors
NoInterface == 0
SocketOutcomes == {"no_socket", "closed", "opened"}
NoOpen == [called |-> FALSE, result |-> 0, opened |-> {}]
\* ClusterManager::MaxClusterSize servers, node IDs 1 to 5. The activity timeout grows
\* with the node ID, so the servers with the lowest node IDs are the ones that campaign.
MaxClusterSize == 5
ClusterServers == 1..MaxClusterSize
Campaigners == {s \in ClusterServers : s + 1 < MaxClusterSize}
ClusterQuorumSize == MaxClusterSize \div 2 + 1
WriteOutcomes == {"written", "not_possible", "failed", "partial"}
NoWrite == [call |-> "none", outcome |-> "none", result |-> 0, top |-> 0]

VARIABLES
    \* --- SingleThreadedExecutor's data members and the nodes it allocated
    registered_nodes_,   \* the ids in the tree of registered nodes
    scheduled_nodes_,    \* the scheduled tree, as its in-order sequence of ids
    last_callback_id_,
    is_auto_remove,      \* per node: ScheduledNode::is_auto_remove_
    is_scheduled,        \* per node: ScheduledNode::is_scheduled_
    execution_time,      \* per node: ScheduledNode::execution_time_
    destroyed,           \* per node: how many times destroyCallbackNode ran on it
    \* --- the steady clock
    clock,
    \* --- the frame of spinOnce
    pc,
    approx_now,
    cur,                 \* the callback node spinOnce is invoking (0: none)
    next_deadline,       \* spin_result.next_deadline (TimePointMin: nullopt)
    worst_lateness,      \* spin_result.worst_lateness
    \* --- history, read by the properties only
    probe,               \* which history this run records (it never changes)
    last,                \* the last executor operation, if probed, and its result
    schedOrder,          \* "order": the scheduled ids in the order of their schedule calls
    origin,              \* "origin": per node, who made its current schedule
    prev,                \* "prev": execution time of spinOnce's previous invocation
    runs,                \* "due": per node, its invocations in the current spinOnce
    due0,                \* "due": the ids that were due when the current spinOnce began
    foreign,             \* "due": a body has scheduled or removed another callback
    \* --- the presentation layer and the transport it stands on
    transfer_id_map_,    \* a transfer id map is set
    local_node_id_known, \* the transport has a local node id (it is not anonymous)
    publishers,          \* per facade: the subject it publishes on, or NoSubject
    publisher_impl,      \* per subject: the shared impl (and its TX session) exists
    transfer_id_,        \* per subject: the impl's next transfer id
    \* --- what was observed of the publishers
    queried,             \* per subject: what the map answered to the impl's
                         \* constructor, NoTransferId when it was not asked
    wire,                \* per subject: the transfer ids the impl's session was
                         \* given to send, in order
    written,             \* per subject: what the impl's destructor wrote to the map
    publish_result,      \* what the last publish returned
    tx_sessions,         \* per subject: the message TX sessions made and not released
    codec_result,        \* what the serialization of the last published message gave
    send_result,         \* what the TX session's send returned to the last publish
    priority_,           \* per facade: its priority (Nominal for a facade that holds
                         \* no publisher)
    facade_call,         \* the call of the last step on a facade, and its arguments
    metadata,            \* the priority and the deadline the TX session's send got
                         \* from the last publish
    \* --- SessionTree of the UDP transport
    nodes_,              \* the tree of session nodes, as its in-order sequence of port ids
    allocated_nodes,     \* the nodes allocated and not deallocated
    total_allocated_bytes,   \* of the memory resource, in units of the size of a node
    total_deallocated_bytes, \* of the memory resource, in units of the size of a node
    tree_destroyed,      \* whether ~SessionTree has run
    \* --- what was observed of the SessionTree
    tree_result,         \* what the last SessionTree call returned
    ensured,             \* the ports ensureNewNodeFor gave a node for, less those
                         \* removeNodeFor was called for since
    visited,             \* the ports the last forEachNode called its action for, in order
    \* --- a service client: its table of in-flight requests, per request slot
    request_state,       \* "Idle" or "WaitResponse" (an entry is in the table)
    request_transfer_id, \* the key of the entry
    request_deadline,    \* the deadline of the entry
    next_request_id,     \* the transfer id of the client's next request
    \* --- what was observed of the client
    deliveries,          \* per slot: the calls of the continuation of its last request
    delivered,           \* per slot: what the continuation was last called with
    \* --- a service server (node::GetInfo)
    response_timeout_,   \* the configured response timeout
    \* --- what was observed of the server
    request,             \* the last request its receive callback got
    response,            \* the metadata of the last response it sent
    requests_received,   \* the number of requests received
    responses_sent,      \* the number of responses sent
    \* --- the CAN transport's TX pipeline, per media interface
    tx_queue,            \* the frames waiting, most urgent first; a frame is its
                         \* insertion number (its payload), priority and deadline
    next_frame,          \* the insertion number of the next frame
    \* --- what was observed of the media, per media interface
    accepted,            \* the frames the media accepted, in order
    dropped,             \* the frames the transport dropped (expired, or media failure)
    last_push,           \* the frame the media did not accept at the last push, and
                         \* whether that push repeated one not accepted; else NoPush
    \* --- RaftCore of the local server
    server_state_,
    current_term,        \* persistent_state_.getCurrentTerm()
    voted_for,           \* persistent_state_.getVotedFor(), NoVote when not set
    raft_log,            \* persistent_state_.getLog(): the terms of its entries;
                         \* the entry of index i is raft_log[i + 1]
    commit_index_,
    active_mode_,
    next_server_index_,
    num_votes_received_in_this_campaign_,
    pending_append_entries_fields_,
    server_next_index,   \* cluster_: per remote server, its next index
    server_match_index,  \* cluster_: per remote server, its match index
    append_entries_calls,\* append_entries_client_: the servers with a pending call
    request_vote_calls,  \* request_vote_clients_: the servers with a pending call
    \* --- what was observed of RaftCore in the last step
    leadership_change,   \* the argument handleLocalLeadershipChange was called with
    local_node_is_leader,\* the last argument it was ever called with (FALSE: never)
    committed_entry,     \* the entry handleLogCommitOnLeader was called with
    append_log_result,   \* what appendLog returned
    response_handled,    \* the response handler that ran, and the state it ran in
    rpc_response,        \* the response of the request handler that has just returned,
                         \* until the service server has sent or dropped it
    requests_sent,       \* per remote server with a pending AppendEntries call, the
                         \* prev_log_index and the number of entries of its request
    \* --- SocketCANInterfaceManager
    open_descriptors,    \* the socket descriptors that are open
    connected_interface, \* interface_list_[i].connected_interface: its fd, or NoInterface
    open_result,         \* what the last step's openInterface returned, and the
                         \* descriptors opened during the call
    \* --- a cluster of RaftCore servers holding elections
    cluster_state,       \* per server: server_state_
    cluster_term,        \* per server: persistent_state_.getCurrentTerm()
    cluster_voted_for,   \* per server: persistent_state_.getVotedFor(), or NoVote
    cluster_votes,       \* per server: num_votes_received_in_this_campaign_
    cluster_calls,       \* per server: the servers its pending RequestVote calls went to
    cluster_active,      \* per server: active_mode_
    leaders_of_term,     \* per term: the servers that became leader in it
    votes_granted,       \* per server: the candidates it has granted its vote to in
                         \* the term it is in, itself included
    write_failures,      \* how many persistent-state writes have failed in the cluster
    campaigns,           \* how many campaigns have been started in the cluster
    \* --- SocketCANInterface
    tx_queue_,           \* the frames in the TX queue, as their numbers
    frames_passed,       \* how many frames have been passed to sendOrEnqueue
    frames_written,      \* the frames whose write succeeded in full, in order
    write_result         \* the last step's call: what ::write did with which frame,
                         \* and what the call returned

nodeVars == <<is_auto_remove, is_scheduled, execution_time, destroyed>>
execVars == <<registered_nodes_, scheduled_nodes_, last_callback_id_, nodeVars>>
frameVars == <<approx_now, cur, next_deadline, worst_lateness>>
spinHist == <<prev, runs, due0, foreign>>
histVars == <<probe, last, schedOrder, origin, spinHist>>
publishVars == <<publish_result, codec_result, send_result>>
facadeVars == <<priority_, facade_call, metadata>>
pubVars == <<transfer_id_map_, local_node_id_known, publishers, publisher_impl,
             transfer_id_, queried, wire, written, tx_sessions, publishVars,
             facadeVars>>
memoryVars == <<total_allocated_bytes, total_deallocated_bytes, tree_destroyed>>
treeVars == <<nodes_, allocated_nodes, tree_result, ensured, visited, memoryVars>>
clientVars == <<request_state, request_transfer_id, request_deadline, next_request_id,
                deliveries, delivered>>
serverVars == <<response_timeout_, request, response, requests_received, responses_sent>>
canVars == <<tx_queue, next_frame, accepted, dropped, last_push>>
switchVars == <<server_state_, server_next_index, server_match_index, next_server_index_,
                num_votes_received_in_this_campaign_, append_entries_calls,
                request_vote_calls, leadership_change, local_node_is_leader>>
raftObserved == <<committed_entry, append_log_result, response_handled, rpc_response,
                  requests_sent>>
raftVars == <<switchVars, current_term, voted_for, raft_log, commit_index_, active_mode_,
              pending_append_entries_fields_, raftObserved>>
socketVars == <<open_descriptors, connected_interface, open_result>>
clusterVars == <<cluster_state, cluster_term, cluster_voted_for, cluster_votes,
                 cluster_calls, cluster_active, leaders_of_term, votes_granted,
                 write_failures, campaigns>>
interfaceVars == <<tx_queue_, frames_passed, frames_written, write_result>>
nonExecVars == <<pubVars, treeVars, clientVars, serverVars, canVars, raftVars, socketVars,
                 clusterVars, interfaceVars>>
vars == <<execVars, clock, pc, frameVars, histVars, nonExecVars>>

\* ------------------------------------------------------------ helpers
NoTreeCall == [call |-> "none", port_id |-> 0, result |-> "none"]

Range(s) == {s[i] : i \in DOMAIN s}

Count(s, e) == Cardinality({i \in DOMAIN s : s[i] = e})

Pos(s, e) == CHOOSE i \in DOMAIN s : s[i] = e

Max(a, b) == IF a >= b THEN a ELSE b

NoOp == [op |-> "none", id |-> 0, t |-> 0, ok |-> FALSE, was |-> FALSE]

\* The record of a call: its name, the callback and the time it was about, whether
\* it succeeded, and one more fact of the state it met (see each call).
Op(name, id, t, ok, was) ==
    IF name \in probe
    THEN [op |-> name, id |-> id, t |-> t, ok |-> ok, was |-> was]
    ELSE NoOp

\* What the comparison would be with > for >=: a later insertion of an equal time
\* would go before the earlier ones.
compareByExecutionTimeLifo(execution_time_, time_point) ==
    IF time_point > execution_time_ THEN 1 ELSE -1

\* ScheduledNode::compareByExecutionTime, of a node whose time is execution_time_
compareByExecutionTime(execution_time_, time_point) ==
    IF time_point >= execution_time_ THEN 1 ELSE -1

\* cavl::Tree::search with a factory: the new node goes where the descent ends,
\* which is right of every node the predicate answered +1 for.
TreeInsert(tree, node, time_point) ==
    LET n == Cardinality({i \in DOMAIN tree :
                 \A j \in 1..i : compareByExecutionTime(execution_time[tree[j]], time_point) > 0})
    IN  SubSeq(tree, 1, n) \o <<node>> \o SubSeq(tree, n + 1, Len(tree))

\* cavl::Tree::remove
TreeRemove(tree, node) == SelectSeq(tree, LAMBDA x : x # node)

\* destroyCallbackNode: the destructor runs and the memory is returned. The model
\* keeps is_auto_remove of a destroyed node (a const member: what the node was).
destroyCallbackNode(node) ==
    /\ destroyed' = [destroyed EXCEPT ![node] = IF @ < 2 THEN @ + 1 ELSE @]
    /\ is_auto_remove' = is_auto_remove
    /\ is_scheduled' = [is_scheduled EXCEPT ![node] = FALSE]
    /\ execution_time' = [execution_time EXCEPT ![node] = 0]

\* A call into the executor comes from outside spinOnce or from a callback's body.
InCall == pc \in {"idle", "body"}

AllPre == [i \in Ids |-> "pre"]

NoRuns == [i \in Ids |-> 0]

\* The frame and the history of a spinOnce that has returned are dropped by the
\* first call made after it; a call from a body leaves them alone.
KeepOrDropSpin ==
    IF pc = "body"
    THEN UNCHANGED <<frameVars, prev, runs, due0>>
    ELSE /\ approx_now' = TimePointMin
         /\ cur' = 0
         /\ next_deadline' = TimePointMin
         /\ worst_lateness' = 0
         /\ prev' = TimePointMin
         /\ runs' = NoRuns
         /\ due0' = {}

\* A call that touches no schedule.
HistoryUntouched ==
    /\ foreign' = (pc = "body" /\ foreign)
    /\ origin' = IF pc = "body" THEN origin ELSE AllPre
    /\ schedOrder' = schedOrder

\* A call that schedules callback_id (scheduled: TRUE) or removes it (FALSE).
HistoryTouched(callback_id, scheduled) ==
    /\ foreign' = (pc = "body" /\ (foreign \/ ("due" \in probe /\ cur # callback_id)))
    /\ origin' = IF pc = "body" /\ "origin" \in probe
                 THEN [origin EXCEPT ![callback_id] =
                          IF ~scheduled THEN "pre"
                          ELSE IF cur = callback_id THEN "self" ELSE "other"]
                 ELSE AllPre
    /\ schedOrder' = IF "order" \notin probe THEN <<>>
                     ELSE IF scheduled
                     THEN Append(TreeRemove(schedOrder, callback_id), callback_id)
                     ELSE TreeRemove(schedOrder, callback_id)

\* ------------------------------------------------------------ initial state
Init(probed) ==
    /\ registered_nodes_ = {}
    /\ scheduled_nodes_ = <<>>
    /\ last_callback_id_ = 0
    /\ is_auto_remove = [i \in Ids |-> FALSE]
    /\ is_scheduled = [i \in Ids |-> FALSE]
    /\ execution_time = [i \in Ids |-> 0]
    /\ destroyed = [i \in Ids |-> 0]
    /\ clock = 0
    /\ pc = "idle"
    /\ approx_now = TimePointMin
    /\ cur = 0
    /\ next_deadline = TimePointMin
    /\ worst_lateness = 0
    /\ probe = probed
    /\ last = NoOp
    /\ schedOrder = <<>>
    /\ origin = AllPre
    /\ prev = TimePointMin
    /\ runs = NoRuns
    /\ due0 = {}
    /\ foreign = FALSE
    /\ transfer_id_map_ = FALSE
    /\ local_node_id_known = FALSE
    /\ publishers = [f \in Facades |-> NoSubject]
    /\ publisher_impl = [s \in Subjects |-> FALSE]
    /\ transfer_id_ = [s \in Subjects |-> 0]
    /\ queried = [s \in Subjects |-> NoTransferId]
    /\ wire = [s \in Subjects |-> <<>>]
    /\ written = [s \in Subjects |-> NoTransferId]
    /\ publish_result = "none"
    /\ tx_sessions = [s \in Subjects |-> 0]
    /\ codec_result = "none"
    /\ send_result = "none"
    /\ priority_ = [f \in Facades |-> "Nominal"]
    /\ facade_call = NoFacadeCall
    /\ metadata = NoMetadata
    /\ nodes_ = <<>>
    /\ allocated_nodes = 0
    /\ total_allocated_bytes = 0
    /\ total_deallocated_bytes = 0
    /\ tree_destroyed = FALSE
    /\ tree_result = NoTreeCall
    /\ ensured = {}
    /\ visited = <<>>
    /\ request_state = [r \in Requests |-> "Idle"]
    /\ request_transfer_id = [r \in Requests |-> 0]
    /\ request_deadline = [r \in Requests |-> 0]
    /\ next_request_id = 0
    /\ deliveries = [r \in Requests |-> 0]
    /\ delivered = [r \in Requests |-> "none"]
    /\ response_timeout_ = DefaultResponseTimeout
    /\ request = NoTransfer
    /\ response = NoTransfer
    /\ requests_received = 0
    /\ responses_sent = 0
    /\ tx_queue = [m \in Medias |-> <<>>]
    /\ next_frame = 1
    /\ accepted = [m \in Medias |-> <<>>]
    /\ dropped = [m \in Medias |-> {}]
    /\ last_push = [m \in Medias |-> NoPush]
    /\ server_state_ = "Follower"
    /\ current_term = 0
    /\ voted_for = NoVote
    /\ raft_log = <<0>>
    /\ commit_index_ = 0
    /\ active_mode_ = TRUE
    /\ next_server_index_ = 0
    /\ num_votes_received_in_this_campaign_ = 0
    /\ pending_append_entries_fields_ = NoPendingFields
    /\ server_next_index = [n \in RemoteServers |-> 1]
    /\ server_match_index = [n \in RemoteServers |-> 0]
    /\ append_entries_calls = {}
    /\ request_vote_calls = {}
    /\ leadership_change = "none"
    /\ local_node_is_leader = FALSE
    /\ committed_entry = NoEntry
    /\ append_log_result = "none"
    /\ response_handled = NoResponse
    /\ rpc_response = NoRpcResponse
    /\ requests_sent = [n \in RemoteServers |-> NoPendingFields]
    /\ open_descriptors = {}
    /\ connected_interface = [i \in Interfaces |-> NoInterface]
    /\ open_result = NoOpen
    /\ cluster_state = [s \in ClusterServers |-> "Follower"]
    /\ cluster_term = [s \in ClusterServers |-> 0]
    /\ cluster_voted_for = [s \in ClusterServers |-> NoVote]
    /\ cluster_votes = [s \in ClusterServers |-> 0]
    /\ cluster_calls = [s \in ClusterServers |-> {}]
    /\ cluster_active = [s \in ClusterServers |-> TRUE]
    /\ leaders_of_term = [t \in 1..MaxElectionTerm |-> {}]
    /\ votes_granted = [s \in ClusterServers |-> {}]
    /\ write_failures = 0
    /\ campaigns = 0
    /\ tx_queue_ = {}
    /\ frames_passed = 0
    /\ frames_written = <<>>
    /\ write_result = NoWrite

\* ------------------------------------------------------------ the clock
\* std::chrono::steady_clock: it never goes back. No call but spinOnce reads it,
\* so the time that passes during a body is let pass when the body has returned.
Tick ==
    /\ pc \in {"idle", "loop"}
    /\ clock < MaxClock
    /\ clock' = clock + 1
    /\ UNCHANGED <<execVars, pc, frameVars, histVars, nonExecVars>>

\* ------------------------------------------------------------ IExecutor
\* What the id would be if last_callback_id_ were not incremented once it is set.
NextCallbackIdSame == IF last_callback_id_ = 0 THEN 1 ELSE last_callback_id_

\* ++last_callback_id_; new_callback_id = last_callback_id_
NextCallbackId == last_callback_id_ + 1

\* appendCallback; alloc_ok tells whether the memory resource gave a node.
appendCallback(is_auto, alloc_ok) ==
    /\ InCall
    /\ KeepOrDropSpin
    /\ HistoryUntouched
    /\ IF ~alloc_ok
       THEN /\ last' = Op("append", 0, 0, FALSE, FALSE)
            /\ UNCHANGED execVars
       ELSE LET new_callback_id == NextCallbackId IN
            /\ last_callback_id_ < MaxCallbacks
            /\ last_callback_id_' = new_callback_id
            /\ is_auto_remove' = [is_auto_remove EXCEPT ![new_callback_id] = is_auto]
            /\ is_scheduled' = [is_scheduled EXCEPT ![new_callback_id] = FALSE]
            /\ registered_nodes_' = registered_nodes_ \cup {new_callback_id}
            /\ last' = Op("append", new_callback_id, 0, TRUE, is_auto)
            /\ UNCHANGED <<scheduled_nodes_, execution_time, destroyed>>
    /\ UNCHANGED <<clock, pc, probe, nonExecVars>>

\* What the tree would be if the previously scheduled node were left in it.
ScheduledWithoutKeep(callback_id) == scheduled_nodes_

\* The previously scheduled node is removed before it is inserted again.
ScheduledWithout(callback_id) ==
    IF is_scheduled[callback_id]
    THEN TreeRemove(scheduled_nodes_, callback_id)
    ELSE scheduled_nodes_

\* What the search would find if it took every id ever given for a registered one.
IsRegisteredEver(callback_id) == callback_id <= last_callback_id_

\* registered_nodes_.search(predicate): whether a node has the id.
IsRegistered(callback_id) == callback_id \in registered_nodes_

scheduleCallbackByIdAt(callback_id, time_point) ==
    /\ InCall
    /\ KeepOrDropSpin
    /\ IF ~IsRegistered(callback_id)
       THEN /\ last' = IF "schedule" \in probe
                       THEN Op("schedule", callback_id, time_point, FALSE, FALSE)
                       ELSE Op("unknown", callback_id, 0, FALSE, FALSE)
            /\ HistoryUntouched
            /\ UNCHANGED execVars
       ELSE /\ is_scheduled' = [is_scheduled EXCEPT ![callback_id] = TRUE]
            /\ execution_time' = [execution_time EXCEPT ![callback_id] = time_point]
            /\ scheduled_nodes_' =
                   TreeInsert(ScheduledWithout(callback_id), callback_id, time_point)
            /\ last' = Op("schedule", callback_id, time_point, TRUE, is_scheduled[callback_id])
            /\ HistoryTouched(callback_id, TRUE)
            /\ UNCHANGED <<registered_nodes_, last_callback_id_, is_auto_remove, destroyed>>
    /\ UNCHANGED <<clock, pc, probe, nonExecVars>>

\* What the tree would be if removeCallbackById left a scheduled node in it.
ScheduledAfterRemoveKeep(callback_id) == scheduled_nodes_

\* removeCallbackById takes a scheduled node out of the scheduled tree.
ScheduledAfterRemove(callback_id) ==
    IF is_scheduled[callback_id]
    THEN TreeRemove(scheduled_nodes_, callback_id)
    ELSE scheduled_nodes_

removeCallbackById(callback_id) ==
    /\ InCall
    /\ KeepOrDropSpin
    /\ IF callback_id \notin registered_nodes_
       THEN /\ last' = Op("remove", callback_id, 0, FALSE, FALSE)
            /\ HistoryUntouched
            /\ UNCHANGED execVars
       ELSE /\ scheduled_nodes_' = ScheduledAfterRemove(callback_id)
            /\ registered_nodes_' = registered_nodes_ \ {callback_id}
            /\ destroyCallbackNode(callback_id)
            /\ last' = Op("remove", callback_id, 0, TRUE,
                        is_scheduled[callback_id] /\ execution_time[callback_id] <= clock)
            /\ HistoryTouched(callback_id, FALSE)
            /\ UNCHANGED last_callback_id_
    /\ UNCHANGED <<clock, pc, probe, nonExecVars>>

\* ------------------------------------------------------------ spinOnce
spinOnceBegin ==
    /\ pc = "idle"
    /\ pc' = "loop"
    /\ approx_now' = TimePointMin
    /\ next_deadline' = TimePointMin
    /\ worst_lateness' = 0
    /\ cur' = 0
    /\ last' = Op("spinBegin", 0, 0, TRUE, FALSE)
    /\ origin' = AllPre
    /\ prev' = TimePointMin
    /\ runs' = NoRuns
    /\ due0' = IF "due" \in probe
               THEN {i \in Range(scheduled_nodes_) : execution_time[i] <= clock}
               ELSE {}
    /\ foreign' = FALSE
    /\ UNCHANGED <<execVars, clock, probe, nonExecVars, schedOrder>>

\* What the comparison would be with <= for <.
IsBeforeOrAt(time_point, exec_time) == time_point <= exec_time

\* if (approx_now < exec_time)
IsBefore(time_point, exec_time) == time_point < exec_time

\* The time spinOnce compares the minimal node with: approx_now, read again from
\* the clock when it is behind the node's execution time.
ApproxNowFor(exec_time) == IF IsBefore(approx_now, exec_time) THEN clock ELSE approx_now

\* while (scheduled_nodes_.min()) ends: there is no scheduled node
spinOnceReturnEmpty ==
    /\ pc = "loop"
    /\ scheduled_nodes_ = <<>>
    /\ pc' = "idle"
    /\ cur' = 0
    /\ last' = Op("spinReturn", 0, 0, TRUE, FALSE)
    /\ UNCHANGED <<execVars, clock, approx_now, next_deadline, worst_lateness,
                   probe, nonExecVars, schedOrder, origin, spinHist>>

\* What spinOnce would return if it gave the clock reading for the deadline.
NextDeadlineNow(exec_time, now) == now

\* spin_result.next_deadline = exec_time
NextDeadline(exec_time, now) == exec_time

\* break: the minimal node is not due yet
spinOnceReturnDeadline ==
    /\ pc = "loop"
    /\ scheduled_nodes_ # <<>>
    /\ LET exec_time == execution_time[Head(scheduled_nodes_)]
           now == ApproxNowFor(exec_time)
       IN  /\ IsBefore(approx_now, exec_time)
           /\ IsBefore(now, exec_time)
           /\ approx_now' = now
           /\ next_deadline' = NextDeadline(exec_time, now)
    /\ pc' = "idle"
    /\ cur' = 0
    /\ last' = Op("spinReturn", 0, 0, TRUE, TRUE)
    /\ UNCHANGED <<execVars, clock, worst_lateness, probe, nonExecVars, schedOrder, origin, spinHist>>

\* What would be registered if spinOnce left an auto-remove node registered.
RegisteredAfterInvokeKeep(callback_node) == registered_nodes_

\* spinOnce unregisters an auto-remove node before it calls its function.
RegisteredAfterInvoke(callback_node) ==
    IF is_auto_remove[callback_node]
    THEN registered_nodes_ \ {callback_node}
    ELSE registered_nodes_

\* The minimal node is due: it leaves the scheduled tree (and, auto-remove, the
\* registered tree) and its function is called.
spinOnceInvoke ==
    /\ pc = "loop"
    /\ scheduled_nodes_ # <<>>
    /\ LET callback_node == Head(scheduled_nodes_)
           exec_time == execution_time[callback_node]
           now == ApproxNowFor(exec_time)
       IN  /\ runs[callback_node] < MaxInvocations
           /\ ~(IsBefore(approx_now, exec_time) /\ IsBefore(now, exec_time))
           /\ approx_now' = now
           /\ worst_lateness' = Max(now - exec_time, worst_lateness)
           /\ is_scheduled' = [is_scheduled EXCEPT ![callback_node] = FALSE]
           /\ scheduled_nodes_' = TreeRemove(scheduled_nodes_, callback_node)
           /\ registered_nodes_' = RegisteredAfterInvoke(callback_node)
           /\ cur' = callback_node
           /\ last' = Op("invoke", callback_node, exec_time, TRUE, origin[callback_node] = "self")
           /\ origin' = [origin EXCEPT ![callback_node] = "pre"]
           /\ schedOrder' = TreeRemove(schedOrder, callback_node)
           /\ prev' = IF "prev" \in probe THEN exec_time ELSE TimePointMin
           /\ runs' = IF "due" \in probe
                      THEN [runs EXCEPT ![callback_node] = @ + 1] ELSE runs
    /\ pc' = "body"
    /\ UNCHANGED <<last_callback_id_, is_auto_remove, execution_time, destroyed, clock,
                   next_deadline, probe, nonExecVars, due0, foreign>>

\* The function returns; spinOnce reads callback_node.isAutoRemove() again. A node
\* that was destroyed meanwhile is read after its destruction: the value read is
\* any value, and with true the node is destroyed a second time.
spinOnceBodyReturn ==
    /\ pc = "body"
    /\ pc' = "loop"
    /\ IF destroyed[cur] > 0
       THEN /\ last' = Op("bodyReturn", cur, 0, FALSE, is_auto_remove[cur])
            /\ \E read \in BOOLEAN :
                  IF read THEN destroyCallbackNode(cur) ELSE UNCHANGED nodeVars
       ELSE /\ last' = Op("bodyReturn", cur, 0, TRUE, is_auto_remove[cur])
            /\ IF is_auto_remove[cur]
               THEN destroyCallbackNode(cur)
               ELSE UNCHANGED nodeVars
    /\ UNCHANGED <<registered_nodes_, scheduled_nodes_, last_callback_id_, clock,
                   frameVars, probe, nonExecVars, schedOrder, origin, spinHist>>

NextExecutor ==
    \/ Tick
    \/ \E is_auto \in BOOLEAN, alloc_ok \in BOOLEAN : appendCallback(is_auto, alloc_ok)
    \/ \E callback_id \in Ids, time_point \in Times :
          scheduleCallbackByIdAt(callback_id, time_point)
    \/ \E callback_id \in Ids : removeCallbackById(callback_id)
    \/ spinOnceBegin
    \/ spinOnceReturnEmpty
    \/ spinOnceReturnDeadline
    \/ spinOnceInvoke
    \/ spinOnceBodyReturn

\* ------------------------------------------------------------ publishers
\* The executor is left alone by the presentation layer's steps below.
ExecutorUntouched ==
    UNCHANGED <<execVars, clock, pc, frameVars, histVars, treeVars, clientVars, serverVars, canVars, raftVars, socketVars, clusterVars, interfaceVars>>

\* Presentation::setTransferIdMap: the application sets or clears the map.
setTransferIdMap(is_set) ==
    /\ transfer_id_map_' = is_set
    /\ UNCHANGED <<local_node_id_known, publishers, publisher_impl, transfer_id_,
                   queried, wire, written, tx_sessions, publishVars, priority_,
                   metadata>>
    /\ facade_call' = NoFacadeCall
    /\ ExecutorUntouched

\* The transport gets its local node id; it keeps it from then on.
setLocalNodeId ==
    /\ ~local_node_id_known
    /\ local_node_id_known' = TRUE
    /\ UNCHANGED <<transfer_id_map_, publishers, publisher_impl, transfer_id_,
                   queried, wire, written, tx_sessions, publishVars, priority_,
                   metadata>>
    /\ facade_call' = NoFacadeCall
    /\ ExecutorUntouched

\* No publish is the last thing that happened.
NoPublish ==
    /\ publish_result' = "none"
    /\ codec_result' = "none"
    /\ send_result' = "none"
    /\ metadata' = NoMetadata

\* The call on a facade and the metadata of a send, which are on record only
\* when the priorities are observed.
FacadeCall(op, facade, other, priority, deadline) ==
    IF "priority" \in probe
    THEN [op |-> op, facade |-> facade, other |-> other, priority |-> priority,
          deadline |-> deadline]
    ELSE NoFacadeCall

Metadata(priority, deadline) ==
    IF "priority" \in probe
    THEN [priority |-> priority, deadline |-> deadline]
    ELSE NoMetadata

\* What it would be if the constructor asked whatever the map and the node id.
MapIsAskedAlways == TRUE

\* The impl's constructor asks the map only when there is a map and the node is
\* not anonymous.
MapIsAsked == transfer_id_map_ /\ local_node_id_known

\* What it would be if the transfer id were not incremented.
NextTransferIdSame(transfer_id) == transfer_id

\* The transfer id after transfer_id.
NextTransferId(transfer_id) == (transfer_id + 1) % TransferIdModulo

\* The facades which publish on subject.
FacadesOf(subject) == {f \in Facades : publishers[f] = subject}

\* What it would be if every makePublisher made an impl of its own.
SharesImplNever(subject) == FALSE

\* makePublisher finds the impl of the subject, if there is one, and shares it.
SharesImpl(subject) == publisher_impl[subject]

\* Presentation::makePublisher: the first facade of a subject makes the TX session
\* and the impl; the impl starts from the map's answer or from zero. A later
\* facade of the subject shares the impl.
makePublisher(facade, subject, answer) ==
    /\ publishers[facade] = NoSubject
    /\ publishers' = [publishers EXCEPT ![facade] = subject]
    /\ priority_' = [priority_ EXCEPT ![facade] = "Nominal"]
    /\ facade_call' = FacadeCall("makePublisher", facade, facade, "Nominal", 0)
    /\ IF SharesImpl(subject)
       THEN UNCHANGED <<publisher_impl, transfer_id_, queried, wire, written,
                        tx_sessions>>
       ELSE /\ tx_sessions' = [tx_sessions EXCEPT ![subject] = @ + 1]
            /\ publisher_impl' = [publisher_impl EXCEPT ![subject] = TRUE]
            /\ queried' = [queried EXCEPT
                   ![subject] = IF MapIsAsked THEN answer ELSE NoTransferId]
            /\ transfer_id_' = [transfer_id_ EXCEPT
                   ![subject] = IF MapIsAsked THEN answer ELSE 0]
            /\ wire' = [wire EXCEPT ![subject] = <<>>]
            /\ written' = [written EXCEPT ![subject] = NoTransferId]
    /\ NoPublish
    /\ UNCHANGED <<transfer_id_map_, local_node_id_known>>
    /\ ExecutorUntouched

\* Publisher's copy constructor: one more facade on the same impl.
copyPublisher(facade, other) ==
    /\ publishers[facade] # NoSubject
    /\ publishers[other] = NoSubject
    /\ publishers' = [publishers EXCEPT ![other] = publishers[facade]]
    /\ priority_' = [priority_ EXCEPT ![other] = priority_[facade]]
    /\ facade_call' = FacadeCall("copy", facade, other, priority_[facade], 0)
    /\ NoPublish
    /\ UNCHANGED <<transfer_id_map_, local_node_id_known, publisher_impl,
                   transfer_id_, queried, wire, written, tx_sessions>>
    /\ ExecutorUntouched

\* Publisher's move constructor: the new facade takes the impl, the old one is
\* left without.
movePublisher(facade, other) ==
    /\ publishers[facade] # NoSubject
    /\ publishers[other] = NoSubject
    /\ publishers' = [publishers EXCEPT ![other] = publishers[facade],
                                        ![facade] = NoSubject]
    /\ priority_' = [priority_ EXCEPT ![other] = priority_[facade],
                                      ![facade] = "Nominal"]
    /\ facade_call' = FacadeCall("move", facade, other, priority_[facade], 0)
    /\ NoPublish
    /\ UNCHANGED <<transfer_id_map_, local_node_id_known, publisher_impl,
                   transfer_id_, queried, wire, written, tx_sessions>>
    /\ ExecutorUntouched

\* What the outcome of publish would be if it kept failures to itself.
PublishResultSuccess(codec, send) == "success"

\* What publish returns: the codec's error if the serialization failed, else
\* what the TX session's send returned.
PublishResult(codec, send) == IF codec # "success" THEN codec ELSE send

\* What would be sent if a failed serialization did not stop publish.
SendIsCalledAlways(codec) == TRUE

\* publish hands the message to the TX session only if it was serialized.
SendIsCalled(codec) == codec = "success"

\* What the priority of a send would be if the facades of a subject had one
\* priority between them, that of the first.
PriorityToSendOfSubject(facade) ==
    priority_[CHOOSE f \in FacadesOf(publishers[facade]) :
                  \A g \in FacadesOf(publishers[facade]) : f <= g]

\* metadata.base.priority of a send: the priority of the facade that publishes
PriorityToSend(facade) == priority_[facade]

\* Publisher::publish: the message is serialized and handed, with the impl's
\* transfer id, the facade's priority and the deadline, to the TX session; the
\* transfer id is used, then incremented.
publish(facade, deadline, codec, send) ==
    LET subject == publishers[facade] IN
    /\ subject # NoSubject
    /\ Len(wire[subject]) < MaxSends
    /\ codec_result' = codec
    /\ facade_call' = FacadeCall("publish", facade, facade, priority_[facade], deadline)
    /\ UNCHANGED priority_
    /\ IF ~SendIsCalled(codec)
       THEN /\ send_result' = "none"
            /\ metadata' = NoMetadata
            /\ publish_result' = PublishResult(codec, "none")
            /\ UNCHANGED <<transfer_id_, wire>>
       ELSE /\ wire' = [wire EXCEPT ![subject] = Append(@, transfer_id_[subject])]
            /\ metadata' = Metadata(PriorityToSend(facade), deadline)
            /\ transfer_id_' = [transfer_id_ EXCEPT
                   ![subject] = NextTransferId(transfer_id_[subject])]
            /\ send_result' = send
            /\ publish_result' = PublishResult(codec, send)
    /\ UNCHANGED <<transfer_id_map_, local_node_id_known, publishers, publisher_impl,
                   queried, written, tx_sessions>>
    /\ ExecutorUntouched

\* What the destructor would write if it wrote the transfer id last sent.
WrittenTransferIdLast(subject) ==
    IF wire[subject] = <<>>
    THEN transfer_id_[subject]
    ELSE wire[subject][Len(wire[subject])]

\* The impl's destructor writes the impl's next transfer id.
WrittenTransferId(subject) == transfer_id_[subject]

\* The impl's destructor writes to the map when there is a map and the node is
\* not anonymous.
MapIsWritten == transfer_id_map_ /\ local_node_id_known

\* A facade has let go of the impl of subject: when no facade is left on it the
\* impl is destroyed; its destructor writes to the map and the TX session is
\* released. What the last session sent stays on record.
releaseImpl(subject) ==
    /\ IF \E f \in Facades : publishers'[f] = subject
       THEN UNCHANGED <<publisher_impl, transfer_id_, written, tx_sessions>>
       ELSE /\ publisher_impl' = [publisher_impl EXCEPT ![subject] = FALSE]
            /\ written' = [written EXCEPT
                   ![subject] = IF MapIsWritten
                                THEN WrittenTransferId(subject)
                                ELSE NoTransferId]
            /\ transfer_id_' = [transfer_id_ EXCEPT ![subject] = 0]
            /\ tx_sessions' = [tx_sessions EXCEPT ![subject] = @ - 1]
    /\ UNCHANGED <<queried, wire>>

\* Publisher's destructor: the last facade of a subject takes the impl with it.
destroyPublisher(facade) ==
    LET subject == publishers[facade] IN
    /\ subject # NoSubject
    /\ publishers' = [publishers EXCEPT ![facade] = NoSubject]
    /\ priority_' = [priority_ EXCEPT ![facade] = "Nominal"]
    /\ facade_call' = FacadeCall("destroy", facade, facade, "Nominal", 0)
    /\ releaseImpl(subject)
    /\ NoPublish
    /\ UNCHANGED <<transfer_id_map_, local_node_id_known>>
    /\ ExecutorUntouched

\* Publisher's copy and move assignment: the target lets go of its impl and takes
\* the source's; a moved source is left without. Assigning a facade to itself
\* changes nothing.
assignPublisher(target, source, is_move) ==
    /\ publishers[target] # NoSubject
    /\ publishers[source] # NoSubject
    /\ publishers' = IF target = source
                     THEN publishers
                     ELSE IF is_move
                          THEN [publishers EXCEPT ![target] = publishers[source],
                                                  ![source] = NoSubject]
                          ELSE [publishers EXCEPT ![target] = publishers[source]]
    /\ priority_' = IF target = source
                    THEN priority_
                    ELSE IF is_move
                         THEN [priority_ EXCEPT ![target] = priority_[source],
                                                ![source] = "Nominal"]
                         ELSE [priority_ EXCEPT ![target] = priority_[source]]
    /\ facade_call' = FacadeCall("assign", target, source, priority_[source], 0)
    /\ releaseImpl(publishers[target])
    /\ NoPublish
    /\ UNCHANGED <<transfer_id_map_, local_node_id_known>>
    /\ ExecutorUntouched

\* Publisher::setPriority
setPriority(facade, priority) ==
    /\ publishers[facade] # NoSubject
    /\ priority_' = [priority_ EXCEPT ![facade] = priority]
    /\ facade_call' = FacadeCall("setPriority", facade, facade, priority, 0)
    /\ NoPublish
    /\ UNCHANGED <<transfer_id_map_, local_node_id_known, publishers, publisher_impl,
                   transfer_id_, queried, wire, written, tx_sessions>>
    /\ ExecutorUntouched

\* What the codec and the TX session's send can return.
CodecResults == {"success", "SerializationBadArrayLength"}
SendResults == {"success", "CapacityError"}

NextPublisher ==
    \/ \E is_set \in BOOLEAN : setTransferIdMap(is_set)
    \/ setLocalNodeId
    \/ \E facade \in Facades, subject \in Subjects, answer \in TransferIds :
           makePublisher(facade, subject, answer)
    \/ \E facade, other \in Facades : copyPublisher(facade, other)
    \/ \E facade, other \in Facades : movePublisher(facade, other)
    \/ \E target, source \in Facades, is_move \in BOOLEAN :
           assignPublisher(target, source, is_move)
    \/ \E facade \in Facades, codec \in CodecResults, send \in SendResults :
           publish(facade, MaxTime, codec, send)
    \/ \E facade \in Facades : destroyPublisher(facade)

\* The facades of an application that sets no transfer id map, and their
\* priorities (as in the tests of test_publisher.cpp).
NextPriority ==
    \/ \E facade \in Facades, subject \in Subjects :
           makePublisher(facade, subject, 0)
    \/ \E facade, other \in Facades : copyPublisher(facade, other)
    \/ \E facade, other \in Facades : movePublisher(facade, other)
    \/ \E target, source \in Facades, is_move \in BOOLEAN :
           assignPublisher(target, source, is_move)
    \/ \E facade \in Facades, priority \in PublisherPriorities :
           setPriority(facade, priority)
    \/ \E facade \in Facades, deadline \in Deadlines, codec \in CodecResults,
          send \in SendResults :
           publish(facade, deadline, codec, send)
    \/ \E facade \in Facades : destroyPublisher(facade)

\* ------------------------------------------------------------ SessionTree
\* The steps of the SessionTree leave the executor and the publishers alone.
TreeAlone ==
    UNCHANGED <<execVars, clock, pc, frameVars, histVars, pubVars, clientVars, serverVars, canVars, raftVars, socketVars, clusterVars, interfaceVars>>

\* A call of the SessionTree and what it returned.
TreeCall(call, port_id, result) ==
    [call |-> call, port_id |-> port_id, result |-> result]

\* What the comparison would be if no port id compared equal (as the execution
\* times of the executor's scheduled tree).
compareByPortIdNoMatch(port_id_, port_id) ==
    IF port_id_ >= port_id THEN 1 ELSE -1

\* RxSessionTreeNode::Base::compareByPortId, of a node whose port is port_id_
compareByPortId(port_id_, port_id) == port_id_ - port_id

\* cavl::Tree::search: the node the predicate gives zero for, 0 if there is none.
SessionSearch(port_id) ==
    IF \E i \in DOMAIN nodes_ : compareByPortId(nodes_[i], port_id) = 0
    THEN CHOOSE i \in DOMAIN nodes_ : compareByPortId(nodes_[i], port_id) = 0
    ELSE 0

\* cavl::Tree::search with a factory, nothing found: the descent goes right of the
\* nodes the predicate is positive for and left of the others, so the new node
\* comes after the former and before the latter.
SessionInsert(port_id) ==
    LET n == Cardinality({i \in DOMAIN nodes_ :
                             compareByPortId(nodes_[i], port_id) > 0})
    IN SubSeq(nodes_, 1, n) \o <<port_id>> \o SubSeq(nodes_, n + 1, Len(nodes_))

\* What it would be if the factory were called whether a node was found or not.
FactoryIsCalledAlways(found) == TRUE

\* The factory (constructNewNode) is called only when the search found no node.
FactoryIsCalled(found) == found = 0

\* SessionTree::ensureNewNodeFor
ensureNewNodeFor(port_id, alloc_ok) ==
    LET found == SessionSearch(port_id)
        node_made == FactoryIsCalled(found) /\ alloc_ok
    IN
    /\ ~tree_destroyed
    /\ alloc_ok => total_allocated_bytes < MaxAllocations
    /\ allocated_nodes' = IF node_made THEN allocated_nodes + 1 ELSE allocated_nodes
    /\ total_allocated_bytes' =
           IF node_made THEN total_allocated_bytes + 1 ELSE total_allocated_bytes
    /\ UNCHANGED <<total_deallocated_bytes, tree_destroyed>>
    /\ nodes_' = IF found = 0 /\ node_made THEN SessionInsert(port_id) ELSE nodes_
    /\ tree_result' = TreeCall("ensureNewNodeFor", port_id,
                                IF found = 0 /\ ~node_made THEN "MemoryError"
                                ELSE IF found # 0 THEN "AlreadyExistsError"
                                ELSE "node")
    /\ ensured' = IF found = 0 /\ node_made THEN ensured \cup {port_id} ELSE ensured
    /\ UNCHANGED visited
    /\ TreeAlone

\* SessionTree::removeNodeFor (removeAndDestroyNode)
removeNodeFor(port_id) ==
    LET found == SessionSearch(port_id) IN
    /\ ~tree_destroyed
    /\ IF found = 0
       THEN UNCHANGED <<nodes_, allocated_nodes, total_deallocated_bytes>>
       ELSE /\ nodes_' = SubSeq(nodes_, 1, found - 1)
                             \o SubSeq(nodes_, found + 1, Len(nodes_))
            /\ allocated_nodes' = allocated_nodes - 1
            /\ total_deallocated_bytes' = total_deallocated_bytes + 1
    /\ UNCHANGED <<total_allocated_bytes, tree_destroyed>>
    /\ tree_result' = TreeCall("removeNodeFor", port_id, "none")
    /\ ensured' = ensured \ {port_id}
    /\ UNCHANGED visited
    /\ TreeAlone

\* SessionTree::forEachNode: the tree is traversed in order, from its least node;
\* the traversal ends at the first node the action fails for (fail_at, 0: none).
forEachNode(fail_at) ==
    /\ ~tree_destroyed
    /\ fail_at \in 0..Len(nodes_)
    /\ visited' = IF fail_at = 0 THEN nodes_ ELSE SubSeq(nodes_, 1, fail_at)
    /\ tree_result' = TreeCall("forEachNode", 0,
                                IF fail_at = 0 THEN "none" ELSE "action failure")
    /\ UNCHANGED <<nodes_, allocated_nodes, ensured, memoryVars>>
    /\ TreeAlone

\* What the destructor would destroy if the traversal ended at its first node.
DestroyedByTraversalFirstOnly(nodes) == IF nodes = <<>> THEN 0 ELSE 1

\* nodes_.traversePostOrder(destroyNode): the number of nodes it destroys, each
\* node of the tree once.
DestroyedByTraversal(nodes) == Len(nodes)

\* SessionTree::~SessionTree
destroySessionTree ==
    /\ ~tree_destroyed
    /\ tree_destroyed' = TRUE
    /\ allocated_nodes' = allocated_nodes - DestroyedByTraversal(nodes_)
    /\ total_deallocated_bytes' = total_deallocated_bytes + DestroyedByTraversal(nodes_)
    /\ nodes_' = <<>>
    /\ ensured' = {}
    /\ tree_result' = TreeCall("~SessionTree", 0, "none")
    /\ UNCHANGED <<visited, total_allocated_bytes>>
    /\ TreeAlone

NextTree ==
    \/ \E port_id \in Ports, alloc_ok \in BOOLEAN : ensureNewNodeFor(port_id, alloc_ok)
    \/ \E port_id \in Ports : removeNodeFor(port_id)
    \/ \E fail_at \in 0..MaxPorts : forEachNode(fail_at)
    \/ destroySessionTree

\* ------------------------------------------------------------ service client
\* The steps of the client leave all but the client alone; its deadlines are
\* callbacks of the executor, which run when the clock has reached them.
ClientAlone ==
    UNCHANGED <<execVars, clock, pc, frameVars, histVars, pubVars, treeVars, serverVars, canVars, raftVars, socketVars, clusterVars, interfaceVars>>

\* The slots whose entry has the key transfer_id.
InFlight(transfer_id) ==
    {r \in Requests : request_state[r] = "WaitResponse"
                          /\ request_transfer_id[r] = transfer_id}

\* What the state of a request would be if its entry stayed after the delivery.
StateAfterDeliveryKept == "WaitResponse"

\* The entry of a request is removed when its continuation is called.
StateAfterDelivery == "Idle"

\* The continuation of the request of slot r is called with result.
deliver(r, result) ==
    /\ request_state' = [request_state EXCEPT ![r] = StateAfterDelivery]
    /\ request_transfer_id' = [request_transfer_id EXCEPT ![r] = 0]
    /\ request_deadline' = [request_deadline EXCEPT ![r] = 0]
    /\ deliveries' = [deliveries EXCEPT ![r] = IF @ < 2 THEN @ + 1 ELSE @]
    /\ delivered' = [delivered EXCEPT ![r] = result]

\* The client sends a request: an entry (deadline, continuation) goes to the table
\* under the request's transfer id.
sendRequest(r, deadline) ==
    /\ request_state[r] = "Idle"
    /\ InFlight(next_request_id) = {}
    /\ request_state' = [request_state EXCEPT ![r] = "WaitResponse"]
    /\ request_transfer_id' = [request_transfer_id EXCEPT ![r] = next_request_id]
    /\ request_deadline' = [request_deadline EXCEPT ![r] = deadline]
    /\ next_request_id' = (next_request_id + 1) % TransferIdModulo
    /\ deliveries' = [deliveries EXCEPT ![r] = 0]
    /\ delivered' = [delivered EXCEPT ![r] = "none"]
    /\ ClientAlone

\* A response arrives: with the transfer id of an entry and from the expected peer
\* it goes to the continuation and the entry is removed; else it is dropped.
receiveResponse(transfer_id, from_expected_peer) ==
    /\ IF from_expected_peer /\ InFlight(transfer_id) # {}
       THEN deliver(CHOOSE r \in InFlight(transfer_id) : TRUE, "response")
       ELSE UNCHANGED <<request_state, request_transfer_id, request_deadline,
                        deliveries, delivered>>
    /\ UNCHANGED next_request_id
    /\ ClientAlone

\* The deadline of a request fires: the entry is removed with a Timeout result.
deadlineFires(r) ==
    /\ request_state[r] = "WaitResponse"
    /\ clock >= request_deadline[r]
    /\ deliver(r, "Timeout")
    /\ UNCHANGED next_request_id
    /\ ClientAlone

\* The request is cancelled: its entry is removed, its continuation is not called.
cancelRequest(r) ==
    /\ request_state[r] = "WaitResponse"
    /\ request_state' = [request_state EXCEPT ![r] = "Idle"]
    /\ request_transfer_id' = [request_transfer_id EXCEPT ![r] = 0]
    /\ request_deadline' = [request_deadline EXCEPT ![r] = 0]
    /\ UNCHANGED <<next_request_id, deliveries, delivered>>
    /\ ClientAlone

NextClient ==
    \/ Tick
    \/ \E r \in Requests, deadline \in Times : sendRequest(r, deadline)
    \/ \E transfer_id \in TransferIds, from_expected_peer \in BOOLEAN :
           receiveResponse(transfer_id, from_expected_peer)
    \/ \E r \in Requests : deadlineFires(r)
    \/ \E r \in Requests : cancelRequest(r)

\* ------------------------------------------------------------ service server
ServerAlone ==
    UNCHANGED <<execVars, clock, pc, frameVars, histVars, pubVars, treeVars, clientVars, canVars, raftVars, socketVars, clusterVars, interfaceVars>>

\* The deadline of a response that ignores the configured timeout.
ResponseDeadlineDefault(timestamp, timeout) == timestamp + DefaultResponseTimeout

\* The deadline of the response to a request received at timestamp.
ResponseDeadline(timestamp, timeout) == timestamp + timeout

\* The metadata of the response to a request.
ResponseTo(req) ==
    [transfer_id |-> req.transfer_id,
     priority |-> req.priority,
     remote_node_id |-> req.remote_node_id,
     deadline |-> ResponseDeadline(req.timestamp, response_timeout_)]

setResponseTimeout(timeout) ==
    /\ response_timeout_' = timeout
    /\ UNCHANGED <<request, response, requests_received, responses_sent>>
    /\ ServerAlone

\* The receive callback of the request session: the response is sent at once.
onRequest(transfer_id, priority, remote_node_id, timestamp) ==
    /\ requests_received < MaxServed
    /\ request' = [transfer_id |-> transfer_id, priority |-> priority,
                   remote_node_id |-> remote_node_id, timestamp |-> timestamp]
    /\ response' = ResponseTo(request')
    /\ requests_received' = requests_received + 1
    /\ responses_sent' = responses_sent + 1
    /\ UNCHANGED response_timeout_
    /\ ServerAlone

NextServer ==
    \/ Tick
    \/ \E timeout \in Timeouts : setResponseTimeout(timeout)
    \/ \E transfer_id \in TransferIds, priority \in Priorities,
          remote_node_id \in NodeIds, timestamp \in 0..clock :
           onRequest(transfer_id, priority, remote_node_id, timestamp)

\* ------------------------------------------------------------ CAN TX pipeline
CanAlone ==
    UNCHANGED <<execVars, clock, pc, frameVars, histVars, pubVars, treeVars,
                clientVars, serverVars, raftVars, socketVars, clusterVars, interfaceVars>>

\* The TX queue is ordered by (priority, deadline, insertion).
IsMoreUrgent(f, g) ==
    \/ f.priority < g.priority
    \/ f.priority = g.priority /\ f.deadline < g.deadline
    \/ f.priority = g.priority /\ f.deadline = g.deadline /\ f.id < g.id

TxInsert(queue, frame) ==
    LET before == SelectSeq(queue, LAMBDA g : IsMoreUrgent(g, frame))
        after == SelectSeq(queue, LAMBDA g : ~IsMoreUrgent(g, frame))
    IN  before \o <<frame>> \o after

\* The frames at the head of the queue whose deadline has passed.
RECURSIVE ExpiredHead(_, _)
ExpiredHead(queue, now) ==
    IF queue # <<>> /\ now > Head(queue).deadline
    THEN {Head(queue)} \cup ExpiredHead(Tail(queue), now)
    ELSE {}

RECURSIVE DropExpired(_, _)
DropExpired(queue, now) ==
    IF queue # <<>> /\ now > Head(queue).deadline
    THEN DropExpired(Tail(queue), now)
    ELSE queue

\* A queue that lets go of the frame the media did not accept.
QueueAfterPushPopped(queue, result) == Tail(queue)

\* The queue after the push of its head: the frame leaves when the media accepted
\* it or failed, and stays at the head when the media did not accept it.
QueueAfterPush(queue, result) ==
    IF result = "not_accepted" THEN queue ELSE Tail(queue)

\* A transfer of one frame is sent: the frame goes to the queue of every media.
enqueueFrame(priority, deadline) ==
    /\ next_frame <= MaxFrames
    /\ LET frame == [id |-> next_frame, priority |-> priority, deadline |-> deadline]
       IN  tx_queue' = [m \in Medias |-> TxInsert(tx_queue[m], frame)]
    /\ next_frame' = next_frame + 1
    /\ UNCHANGED <<accepted, dropped, last_push>>
    /\ CanAlone

\* The "ready to push" callback of a media: expired frames are dropped, then the
\* head of the queue is offered to the media, which gives its answer.
pushNextFrame(m, result) ==
    LET live == DropExpired(tx_queue[m], clock)
        expired == ExpiredHead(tx_queue[m], clock)
    IN  /\ tx_queue[m] # <<>>
        /\ IF live = <<>>
           THEN /\ tx_queue' = [tx_queue EXCEPT ![m] = <<>>]
                /\ dropped' = [dropped EXCEPT ![m] = @ \cup expired]
                /\ UNCHANGED <<accepted, last_push>>
           ELSE /\ tx_queue' = [tx_queue EXCEPT ![m] = QueueAfterPush(live, result)]
                /\ accepted' = [accepted EXCEPT ![m] =
                                   IF result = "accepted" THEN Append(@, Head(live)) ELSE @]
                /\ dropped' = [dropped EXCEPT ![m] =
                                  IF result = "failure" THEN @ \cup expired \cup {Head(live)}
                                  ELSE @ \cup expired]
                /\ last_push' = [last_push EXCEPT ![m] =
                                    IF result = "not_accepted"
                                    THEN [result |-> result, frame |-> Head(live),
                                          again |-> /\ @.result = "not_accepted"
                                                    /\ @.frame = Head(live)]
                                    ELSE NoPush]
        /\ UNCHANGED next_frame
        /\ CanAlone

NextCan ==
    \/ Tick
    \/ \E priority \in FramePriorities, deadline \in {0, MaxTime} :
           enqueueFrame(priority, deadline)
    \/ \E m \in Medias, result \in PushResults : pushNextFrame(m, result)

\* ------------------------------------------------------------ RaftCore
RaftAlone ==
    UNCHANGED <<execVars, clock, pc, frameVars, histVars, pubVars, treeVars,
                clientVars, serverVars, canVars, socketVars, clusterVars,
                interfaceVars>>

Min(a, b) == IF a <= b THEN a ELSE b

\* Log::getLastIndex, Log::getEntryAtIndex (the term of the entry, and whether
\* there is an entry)
LastIndex(log) == Len(log) - 1

EntryAt(log, index) == log[index + 1]

HasEntry(log, index) == index \in 0..LastIndex(log)

\* ClusterManager::getQuorumSize
QuorumSize == (Cardinality(RemoteServers) + 1) \div 2 + 1

\* ClusterManager::getRemoteServerNodeIDAtIndex
RemoteServerAt(index) == CHOOSE n \in RemoteServers : Cardinality({m \in RemoteServers : m < n}) = index

\* What isLeader would be if a Candidate passed for a Leader.
isLeaderOrCandidate == server_state_ # "Follower"

isLeader == server_state_ = "Leader"

BoolName(b) == IF b THEN "true" ELSE "false"

\* The pending calls of a client that a state switch would not cancel.
CallsAfterSwitchKept(calls) == calls

\* request_vote_clients_[i]->cancel(), append_entries_client_.cancel()
CallsAfterSwitch(calls) == {}

\* What the condition would be if only the entry into Leader were told.
IsLeadershipChangeEntry(old_state, new_state) == new_state = "Leader"

\* if ((old_state == ServerStateLeader) || (new_state == ServerStateLeader))
IsLeadershipChange(old_state, new_state) == old_state = "Leader" \/ new_state = "Leader"

\* switchState(new_state), the log being log and the clients having these calls
\* pending when it is called.
switchState(new_state, log, append_entries, request_vote) ==
    IF server_state_ = new_state
    THEN /\ UNCHANGED <<server_state_, server_next_index, server_match_index,
                        next_server_index_, num_votes_received_in_this_campaign_,
                        local_node_is_leader>>
         /\ append_entries_calls' = append_entries
         /\ request_vote_calls' = request_vote
         /\ leadership_change' = "none"
    ELSE /\ server_state_' = new_state
         /\ server_next_index' = [n \in RemoteServers |-> LastIndex(log) + 1]
         /\ server_match_index' = [n \in RemoteServers |-> 0]
         /\ next_server_index_' = 0
         /\ num_votes_received_in_this_campaign_' = 0
         /\ request_vote_calls' = CallsAfterSwitch(request_vote)
         /\ append_entries_calls' = CallsAfterSwitch(append_entries)
         /\ IF IsLeadershipChange(server_state_, new_state)
            THEN /\ leadership_change' = BoolName(new_state = "Leader")
                 /\ local_node_is_leader' = (new_state = "Leader")
            ELSE /\ leadership_change' = "none"
                 /\ UNCHANGED local_node_is_leader

\* A handler that does not call switchState and leaves the cluster's indices.
NoSwitch == switchState(server_state_, raft_log, append_entries_calls, request_vote_calls)

\* handlePersistentStateUpdateError
handlePersistentStateUpdateError ==
    /\ switchState("Follower", raft_log, append_entries_calls, request_vote_calls)
    /\ active_mode_' = FALSE

NothingObserved ==
    /\ committed_entry' = NoEntry
    /\ append_log_result' = "none"
    /\ response_handled' = NoResponse

\* What a request handler leaves in its response, and whether it has called
\* registerActivity(). The fields of a response that is not enabled are not sent.
RpcResponse(handler, known, request_term, enabled, term, granted, activity) ==
    IF "response" \in probe
    THEN [handler |-> handler, known |-> known, request_term |-> request_term,
          enabled |-> enabled, term |-> IF enabled THEN term ELSE 0,
          granted |-> enabled /\ granted, activity |-> activity]
    ELSE NoRpcResponse

\* The requests of the pending AppendEntries calls after a step that has called
\* server node_id with fields (NoVote: the step has called no server).
RequestsSent(node_id, fields) ==
    [n \in RemoteServers |->
        IF "sent" \notin probe \/ n \notin append_entries_calls' THEN NoPendingFields
        ELSE IF n = node_id THEN fields ELSE requests_sent[n]]

\* A step that sends no AppendEntries request and handles no request.
NoRequest ==
    /\ rpc_response' = NoRpcResponse
    /\ requests_sent' = RequestsSent(NoVote, NoPendingFields)

\* What the number of servers with the next entry would be if every known server
\* were counted.
NumNodesWithNextLogEntryAll == 1 + Cardinality(RemoteServers)

\* propagateCommitIndex: the local node and the servers whose match index is
\* above commit_index_
NumNodesWithNextLogEntry ==
    1 + Cardinality({n \in RemoteServers : server_match_index[n] > commit_index_})

\* propagateCommitIndex, active being the active mode when it is called. The entry
\* of an index the log does not have is read through a null pointer: any term.
propagateCommitIndex(active) ==
    IF commit_index_ = LastIndex(raft_log)
    THEN /\ active_mode_' = ~(\A n \in RemoteServers : server_match_index[n] = commit_index_)
         /\ UNCHANGED commit_index_
         /\ committed_entry' = NoEntry
    ELSE /\ active_mode_' = TRUE
         /\ IF NumNodesWithNextLogEntry >= QuorumSize
            THEN /\ commit_index_' = commit_index_ + 1
                 /\ \E term \in Terms :
                        /\ HasEntry(raft_log, commit_index_ + 1) =>
                               term = EntryAt(raft_log, commit_index_ + 1)
                        /\ committed_entry' = [index |-> commit_index_ + 1, term |-> term]
            ELSE /\ UNCHANGED commit_index_
                 /\ committed_entry' = NoEntry

\* updateFollower
updateFollower(active, timed_out) ==
    /\ IF active /\ timed_out
       THEN switchState("Candidate", raft_log, append_entries_calls, request_vote_calls)
       ELSE NoSwitch
    /\ active_mode_' = active
    /\ committed_entry' = NoEntry
    /\ UNCHANGED <<current_term, voted_for, commit_index_, pending_append_entries_fields_>>

\* updateCandidate; persist tells which update of the persistent state fails,
\* called the servers the RequestVote call succeeded for.
updateCandidate(active, persist, called) ==
    /\ committed_entry' = NoEntry
    /\ UNCHANGED <<commit_index_, pending_append_entries_fields_>>
    /\ IF num_votes_received_in_this_campaign_ > 0
       THEN /\ switchState(IF num_votes_received_in_this_campaign_ >= QuorumSize
                           THEN "Leader" ELSE "Follower",
                           raft_log, append_entries_calls, request_vote_calls)
            /\ active_mode_' = active
            /\ UNCHANGED <<current_term, voted_for>>
       ELSE IF persist = "setVotedFor"
       THEN /\ handlePersistentStateUpdateError
            /\ UNCHANGED <<current_term, voted_for>>
       ELSE IF persist = "setCurrentTerm"
       THEN /\ handlePersistentStateUpdateError
            /\ voted_for' = LocalServer
            /\ UNCHANGED current_term
       ELSE /\ current_term < MaxTerm
            /\ voted_for' = LocalServer
            /\ current_term' = current_term + 1
            /\ num_votes_received_in_this_campaign_' = 1
            /\ request_vote_calls' = request_vote_calls \cup called
            /\ active_mode_' = active
            /\ leadership_change' = "none"
            /\ UNCHANGED <<server_state_, server_next_index, server_match_index,
                           next_server_index_, append_entries_calls, local_node_is_leader>>

\* updateLeader; call_ok tells whether the AppendEntries call could be made.
updateLeader(active, call_ok) ==
    LET node_id == RemoteServerAt(next_server_index_)
        prev_log_index == server_next_index[node_id] - 1
        num_entries == Min(EntriesCapacity, LastIndex(raft_log) - prev_log_index)
    IN  /\ UNCHANGED <<current_term, voted_for>>
        /\ IF active \/ next_server_index_ > 0
           THEN IF ~HasEntry(raft_log, prev_log_index)
                THEN /\ handlePersistentStateUpdateError
                     /\ committed_entry' = NoEntry
                     /\ UNCHANGED <<commit_index_, pending_append_entries_fields_>>
                     /\ requests_sent' = RequestsSent(NoVote, NoPendingFields)
                ELSE /\ next_server_index_' =
                            IF next_server_index_ + 1 >= Cardinality(RemoteServers)
                            THEN 0 ELSE next_server_index_ + 1
                     /\ pending_append_entries_fields_' =
                            [prev_log_index |-> prev_log_index, num_entries |-> num_entries]
                     /\ append_entries_calls' =
                            IF call_ok THEN append_entries_calls \cup {node_id}
                            ELSE append_entries_calls
                     /\ leadership_change' = "none"
                     /\ UNCHANGED <<server_state_, server_next_index, server_match_index,
                                    num_votes_received_in_this_campaign_,
                                    request_vote_calls, local_node_is_leader>>
                     /\ propagateCommitIndex(active)
                     /\ requests_sent' =
                            RequestsSent(IF call_ok THEN node_id ELSE NoVote,
                                         [prev_log_index |-> prev_log_index,
                                          num_entries |-> num_entries])
           ELSE /\ NoSwitch
                /\ UNCHANGED pending_append_entries_fields_
                /\ propagateCommitIndex(active)
                /\ requests_sent' = RequestsSent(NoVote, NoPendingFields)

\* handleTimerEvent; timed_out is isActivityTimedOut(), discovery is
\* cluster_.hadDiscoveryActivity().
handleTimerEvent(timed_out, discovery, persist, called, call_ok) ==
    LET active == active_mode_ \/ (discovery /\ isLeader)
    IN  /\ CASE server_state_ = "Follower" ->
                      /\ updateFollower(active, timed_out)
                      /\ requests_sent' = RequestsSent(NoVote, NoPendingFields)
             [] server_state_ = "Candidate" ->
                      /\ updateCandidate(active, persist, called)
                      /\ requests_sent' = RequestsSent(NoVote, NoPendingFields)
             [] server_state_ = "Leader" -> updateLeader(active, call_ok)
        /\ UNCHANGED raft_log
        /\ append_log_result' = "none"
        /\ response_handled' = NoResponse
        /\ rpc_response' = NoRpcResponse
        /\ RaftAlone

\* The state of the persistent state after setCurrentTerm(term) and
\* resetVotedFor(), which fail when persist_ok is false.
TermAfter(term, persist_ok) == IF persist_ok THEN term ELSE current_term

VotedForAfter(persist_ok) == IF persist_ok THEN NoVote ELSE voted_for

\* What step 1 would be with the terms compared the other way round.
IsStaleTermSwapped(term, now_term) == now_term < term

\* Step 1 of handleAppendEntriesRequest: the leader has a stale term number.
IsStaleTerm(term, now_term) == term < now_term

\* The log after steps 3 and 4 of handleAppendEntriesRequest, when every update
\* of the log succeeds.
LogAfterRequest(prev_log_index, prev_log_term, entries) ==
    IF EntryAt(raft_log, prev_log_index) # prev_log_term
    THEN SubSeq(raft_log, 1, prev_log_index)
    ELSE SubSeq(raft_log, 1, prev_log_index + 1) \o entries

\* handleAppendEntriesRequest from a server of the cluster (is_known) or not.
handleAppendEntriesRequest(is_known, term, prev_log_index, prev_log_term, entries, leader_commit, term_ok, reset_ok, log_ok) ==
    LET newer == term > current_term
        now_term == IF newer THEN TermAfter(term, term_ok) ELSE current_term
        ignored == ~is_known
        stopped == newer /\ ~(term_ok /\ reset_ok)
        stale == IsStaleTerm(term, now_term)
        matches == HasEntry(raft_log, prev_log_index)
        new_log == LogAfterRequest(prev_log_index, prev_log_term, entries)
        writes == \/ EntryAt(raft_log, prev_log_index) # prev_log_term
                  \/ prev_log_index # LastIndex(raft_log)
                  \/ entries # <<>>
        done == matches /\ (log_ok \/ ~writes)
        appended == done /\ EntryAt(raft_log, prev_log_index) = prev_log_term
        enabled == IF stopped THEN FALSE
                   ELSE IF stale \/ ~matches THEN TRUE
                   ELSE done
    IN  /\ NothingObserved
        /\ UNCHANGED pending_append_entries_fields_
        /\ IF ignored
           THEN /\ NoSwitch
                /\ UNCHANGED <<current_term, voted_for, raft_log, commit_index_, active_mode_>>
                /\ rpc_response' = RpcResponse("AppendEntries", FALSE, term,
                                               ResponseEnabledByDefault, 0, FALSE, FALSE)
           ELSE /\ current_term' = now_term
                /\ voted_for' = IF newer THEN VotedForAfter(reset_ok) ELSE voted_for
                /\ rpc_response' = RpcResponse("AppendEntries", TRUE, term, enabled,
                                               now_term, ~stopped /\ ~stale /\ appended,
                                               TRUE)
                /\ IF newer \/ ~stale
                   THEN /\ switchState("Follower", raft_log, append_entries_calls,
                                       request_vote_calls)
                        /\ active_mode_' = FALSE
                   ELSE /\ NoSwitch
                        /\ UNCHANGED active_mode_
                /\ IF stopped \/ stale \/ ~done
                   THEN UNCHANGED <<raft_log, commit_index_>>
                   ELSE /\ raft_log' = new_log
                        /\ commit_index_' =
                               IF appended /\ leader_commit > commit_index_
                               THEN Min(leader_commit, LastIndex(new_log))
                               ELSE commit_index_
        /\ requests_sent' = RequestsSent(NoVote, NoPendingFields)
        /\ RaftAlone

\* handleAppendEntriesResponse for the pending call to server node_id; a call
\* that timed out is not successful.
handleAppendEntriesResponse(node_id, is_successful, term, success, persist_ok) ==
    /\ node_id \in append_entries_calls
    /\ response_handled' = [handler |-> "AppendEntries", state |-> server_state_]
    /\ committed_entry' = NoEntry
    /\ append_log_result' = "none"
    /\ UNCHANGED <<voted_for, raft_log, commit_index_>>
    /\ IF ~is_successful
       THEN /\ switchState(server_state_, raft_log, append_entries_calls \ {node_id},
                           request_vote_calls)
            /\ UNCHANGED <<current_term, active_mode_, pending_append_entries_fields_>>
       ELSE /\ pending_append_entries_fields_' = NoPendingFields
            /\ IF term > current_term
               THEN /\ current_term' = TermAfter(term, persist_ok)
                    /\ switchState("Follower", raft_log, append_entries_calls \ {node_id},
                                   request_vote_calls)
                    /\ active_mode_' = FALSE
               ELSE /\ server_next_index' = [server_next_index EXCEPT ![node_id] =
                           IF success
                           THEN @ + pending_append_entries_fields_.num_entries
                           ELSE IF @ > 1 THEN @ - 1 ELSE @]
                    /\ server_match_index' = [server_match_index EXCEPT ![node_id] =
                           IF success
                           THEN pending_append_entries_fields_.prev_log_index
                                    + pending_append_entries_fields_.num_entries
                           ELSE @]
                    /\ append_entries_calls' = append_entries_calls \ {node_id}
                    /\ leadership_change' = "none"
                    /\ UNCHANGED <<server_state_, next_server_index_,
                                   num_votes_received_in_this_campaign_, request_vote_calls,
                                   local_node_is_leader, current_term, active_mode_>>
    /\ NoRequest
    /\ RaftAlone

\* Log::isOtherLogUpToDate
isOtherLogUpToDate(last_log_index, last_log_term) ==
    LET my_term == EntryAt(raft_log, LastIndex(raft_log))
    IN  \/ last_log_term > my_term
        \/ last_log_term = my_term /\ last_log_index >= LastIndex(raft_log)

\* handleRequestVoteRequest from server node_id
handleRequestVoteRequest(is_known, node_id, term, last_log_index, last_log_term, term_ok, reset_ok, vote_ok) ==
    LET newer == term > current_term
        now_term == IF newer THEN TermAfter(term, term_ok) ELSE current_term
        now_voted == IF newer THEN VotedForAfter(reset_ok) ELSE voted_for
        stopped == newer /\ ~(term_ok /\ reset_ok)
        can_vote == now_voted = NoVote \/ now_voted = node_id
        vote_granted == /\ ~stopped
                        /\ term >= now_term
                        /\ can_vote
                        /\ isOtherLogUpToDate(last_log_index, last_log_term)
    IN  /\ NothingObserved
        /\ UNCHANGED <<raft_log, commit_index_, pending_append_entries_fields_>>
        /\ IF ~is_known
           THEN /\ NoSwitch
                /\ UNCHANGED <<current_term, voted_for, active_mode_>>
                /\ rpc_response' = RpcResponse("RequestVote", FALSE, term,
                                               ResponseEnabledByDefault, 0, FALSE, FALSE)
           ELSE /\ active_mode_' = TRUE
                /\ current_term' = now_term
                /\ voted_for' = IF vote_granted /\ vote_ok THEN node_id ELSE now_voted
                /\ rpc_response' = RpcResponse("RequestVote", TRUE, term,
                                               ~stopped /\ (vote_granted => vote_ok),
                                               now_term, vote_granted, vote_granted)
                /\ IF newer
                   THEN switchState("Follower", raft_log, append_entries_calls,
                                    request_vote_calls)
                   ELSE NoSwitch
        /\ requests_sent' = RequestsSent(NoVote, NoPendingFields)
        /\ RaftAlone

\* handleRequestVoteResponse for the pending call to server node_id
handleRequestVoteResponse(node_id, is_successful, term, vote_granted, persist_ok) ==
    /\ node_id \in request_vote_calls
    /\ response_handled' = [handler |-> "RequestVote", state |-> server_state_]
    /\ committed_entry' = NoEntry
    /\ append_log_result' = "none"
    /\ UNCHANGED <<voted_for, raft_log, commit_index_, pending_append_entries_fields_>>
    /\ IF is_successful /\ term > current_term
       THEN /\ current_term' = TermAfter(term, persist_ok)
            /\ switchState("Follower", raft_log, append_entries_calls,
                           request_vote_calls \ {node_id})
            /\ active_mode_' = FALSE
       ELSE /\ num_votes_received_in_this_campaign_' =
                   IF is_successful /\ vote_granted
                   THEN num_votes_received_in_this_campaign_ + 1
                   ELSE num_votes_received_in_this_campaign_
            /\ request_vote_calls' = request_vote_calls \ {node_id}
            /\ leadership_change' = "none"
            /\ UNCHANGED <<server_state_, server_next_index, server_match_index,
                           next_server_index_, append_entries_calls,
                           local_node_is_leader, current_term, active_mode_>>
    /\ NoRequest
    /\ RaftAlone

\* appendLog; log_ok tells whether Log::append succeeds (it fails on a full log).
appendLog(log_ok) ==
    /\ IF isLeader
       THEN IF log_ok /\ LastIndex(raft_log) < MaxLogIndex
            THEN /\ raft_log' = Append(raft_log, current_term)
                 /\ append_log_result' = "ok"
            ELSE /\ UNCHANGED raft_log
                 /\ append_log_result' = "ErrFailure"
       ELSE /\ UNCHANGED raft_log
            /\ append_log_result' = "ErrLogic"
    /\ NoSwitch
    /\ committed_entry' = NoEntry
    /\ response_handled' = NoResponse
    /\ UNCHANGED <<current_term, voted_for, commit_index_, active_mode_,
                   pending_append_entries_fields_>>
    /\ NoRequest
    /\ RaftAlone

PersistFailures == {"none", "setVotedFor", "setCurrentTerm"}

\* The entries of a request of a leader of term term whose entry of index
\* prev_log_index has prev_log_term: none or one, of a term between the two. Only
\* the entry of index 0 has term 0.
EntriesOf(term, prev_log_index, prev_log_term) ==
    {<<>>} \cup (IF prev_log_index < MaxLogIndex
                 THEN {<<t>> : t \in {u \in Terms \ {0} : prev_log_term <= u /\ u <= term}}
                 ELSE {})

\* A request that the storage fails for is left as soon as it fails, whatever
\* else it holds: one request stands for all of them.
FailingRequest(term, prev_log_index, entries, leader_commit) ==
    prev_log_index = 0 /\ entries = <<term>> /\ leader_commit = 0

\* The fields of an AppendEntries request that the handler does not read are
\* fixed: what follows the term when the term is stale, the entries and the commit
\* index when the log has no entry of the term at prev_log_index, and a commit
\* index above commit_index_ and above the last index of the request, which step
\* 5 cuts it to.
AppendEntriesInputs(term, prev_log_index, prev_log_term, entries, leader_commit) ==
    LET unread == \/ term < current_term
                  \/ ~HasEntry(raft_log, prev_log_index)
                  \/ EntryAt(raft_log, prev_log_index) # prev_log_term
    IN  /\ leader_commit <= Max(prev_log_index + Len(entries), commit_index_ + 1)
        /\ unread => (entries = <<>> /\ leader_commit = 0)
        /\ term < current_term => prev_log_index = 0
        /\ ~HasEntry(raft_log, prev_log_index) => prev_log_term = 1
        /\ (HasEntry(raft_log, prev_log_index)
              /\ EntryAt(raft_log, prev_log_index) # prev_log_term) =>
               \A t \in 1..(prev_log_term - 1) : t = EntryAt(raft_log, prev_log_index)

\* The last log index and term of a RequestVote request are read only by
\* isOtherLogUpToDate, and not at all when the term is stale or the persistent
\* state could not be updated: the request of an empty log stands for those
\* answered like it, the request of the longest log of the latest term for the
\* others. setVotedFor is only called, and so can only fail, when the vote is
\* granted.
RequestVoteInputs(term, last_log_index, last_log_term, failure) ==
    /\ last_log_index # 0 =>
           /\ failure \in {"none", "last"}
           /\ term >= current_term
           /\ isOtherLogUpToDate(last_log_index, last_log_term)
           /\ ~isOtherLogUpToDate(0, 0)
    /\ failure = "last" =>
           /\ term >= current_term
           /\ isOtherLogUpToDate(last_log_index, last_log_term)

\* The updates of the persistent state that can fail while a request of term is
\* handled: those of the term and of the vote when the term is newer, and the
\* last one of the handler (of the log, or setVotedFor).
RequestFailures(term) ==
    {"none", "last"} \cup (IF term > current_term
                           THEN {"setCurrentTerm", "resetVotedFor", "both"}
                           ELSE {})

TermOk(failure) == failure \notin {"setCurrentTerm", "both"}

ResetOk(failure) == failure \notin {"resetVotedFor", "both"}

LastOk(failure) == failure # "last"

\* The inputs of a timer event that the state it comes in does not read are fixed.
TimerInputs(timed_out, discovery, persist, called, call_ok) ==
    /\ server_state_ # "Follower" => ~timed_out
    /\ server_state_ # "Leader" => (~discovery /\ call_ok)
    /\ (server_state_ # "Candidate" \/ num_votes_received_in_this_campaign_ > 0) =>
           (persist = "none" /\ called = {})
    /\ persist # "none" => called = {}

\* A response handler reads the term of a response only to tell whether it is
\* above the current term, and then reads nothing else of it.
\* The requests a server of the cluster can send: a leader or a candidate has a
\* term above 0, the entry of index 0 has term 0 everywhere and no other has, and
\* no entry has a later term than its leader. What comes from a node that is not
\* of the cluster is ignored whatever it holds.
\* The node is single-threaded: the response of a request handler is sent, or
\* dropped, before anything else is handled.
NextRaft ==
    \/ /\ rpc_response = NoRpcResponse
       /\ \E timed_out \in BOOLEAN, discovery \in BOOLEAN, persist \in PersistFailures,
             called \in SUBSET RemoteServers, call_ok \in BOOLEAN :
              /\ TimerInputs(timed_out, discovery, persist, called, call_ok)
              /\ handleTimerEvent(timed_out, discovery, persist, called, call_ok)
    \/ /\ rpc_response = NoRpcResponse
       /\ \E is_known \in BOOLEAN :
          \E term \in (IF is_known THEN Terms ELSE {0}) :
          \E failure \in (IF is_known THEN RequestFailures(term) ELSE {"none"}) :
          \E prev_log_index \in (IF failure # "none" \/ term = 0 \/ term < current_term
                                 THEN {0} ELSE LogIndices) :
          \E prev_log_term \in (IF prev_log_index = 0 THEN {0} ELSE 1..term) :
          \E entries \in EntriesOf(term, prev_log_index, prev_log_term),
             leader_commit \in (IF failure # "none" \/ term = 0 THEN {0} ELSE LogIndices) :
              /\ IF failure = "none"
                 THEN AppendEntriesInputs(term, prev_log_index, prev_log_term, entries,
                                          leader_commit)
                 ELSE FailingRequest(term, prev_log_index, entries, leader_commit)
              /\ handleAppendEntriesRequest(is_known, term, prev_log_index, prev_log_term,
                                            entries, leader_commit, TermOk(failure),
                                            ResetOk(failure), LastOk(failure))
    \/ /\ rpc_response = NoRpcResponse
       /\ \E node_id \in append_entries_calls, is_successful \in BOOLEAN, term \in Terms,
             success \in BOOLEAN, persist_ok \in BOOLEAN :
              /\ ~is_successful => (term = 0 /\ success /\ persist_ok)
              /\ term <= current_term => (term = 0 /\ persist_ok)
              /\ term > current_term => success
              /\ handleAppendEntriesResponse(node_id, is_successful, term, success,
                                             persist_ok)
    \/ /\ rpc_response = NoRpcResponse
       /\ \E is_known \in BOOLEAN, node_id \in RemoteServers :
          \E term \in (IF is_known THEN Terms \ {0} ELSE {0}) :
          \E failure \in (IF is_known THEN RequestFailures(term) ELSE {"none"}) :
          \E last_log_index \in {0, MaxLogIndex} :
              LET last_log_term == IF last_log_index = 0 THEN 0 ELSE term
              IN  /\ RequestVoteInputs(term, last_log_index, last_log_term, failure)
                  /\ handleRequestVoteRequest(is_known, node_id, term, last_log_index,
                                              last_log_term, TermOk(failure),
                                              ResetOk(failure), LastOk(failure))
    \/ /\ rpc_response = NoRpcResponse
       /\ \E node_id \in request_vote_calls, is_successful \in BOOLEAN, term \in Terms,
             vote_granted \in BOOLEAN, persist_ok \in BOOLEAN :
              /\ ~is_successful => (term = 0 /\ vote_granted /\ persist_ok)
              /\ term <= current_term => (term = 0 /\ persist_ok)
              /\ term > current_term => vote_granted
              /\ handleRequestVoteResponse(node_id, is_successful, term, vote_granted,
                                           persist_ok)
    \/ /\ rpc_response = NoRpcResponse
       /\ \E log_ok \in BOOLEAN : appendLog(log_ok)

\* The service server sends the response the handler has left, if it is enabled.
sendResponse ==
    /\ rpc_response # NoRpcResponse
    /\ rpc_response' = NoRpcResponse
    /\ UNCHANGED <<switchVars, current_term, voted_for, raft_log, commit_index_,
                   active_mode_, pending_append_entries_fields_, committed_entry,
                   append_log_result, response_handled, requests_sent>>
    /\ RaftAlone

NextResponse ==
    \/ NextRaft
    \/ sendResponse

\* ------------------------------------------------------------ a cluster in election
\* Every server of the cluster runs RaftCore. The logs are empty, so a candidate's log
\* is always up to date; of the traffic only the RequestVote calls are followed, in
\* the order updateCandidate makes them: a call is served and its response handled in
\* one step, or it times out, or the campaign ends before it.
ClusterAlone ==
    UNCHANGED <<execVars, clock, pc, frameVars, histVars, pubVars, treeVars,
                clientVars, serverVars, canVars, raftVars, socketVars, interfaceVars>>

\* updateFollower on a server whose activity timeout has passed.
clusterUpdateFollower(s) ==
    /\ cluster_state[s] = "Follower"
    /\ cluster_active[s]
    /\ cluster_state' = [cluster_state EXCEPT ![s] = "Candidate"]
    /\ cluster_votes' = [cluster_votes EXCEPT ![s] = 0]
    /\ cluster_calls' = [cluster_calls EXCEPT ![s] = {}]
    /\ UNCHANGED <<cluster_term, cluster_voted_for, cluster_active, leaders_of_term,
                   votes_granted, write_failures, campaigns>>
    /\ ClusterAlone

\* updateCandidate with votes received: the election is complete.
clusterCompleteElection(s) ==
    /\ cluster_state[s] = "Candidate"
    /\ cluster_votes[s] > 0
    /\ LET won == cluster_votes[s] >= ClusterQuorumSize
       IN  /\ cluster_state' = [cluster_state EXCEPT ![s] = IF won THEN "Leader" ELSE "Follower"]
           /\ leaders_of_term' =
                  IF won
                  THEN [leaders_of_term EXCEPT ![cluster_term[s]] = @ \cup {s}]
                  ELSE leaders_of_term
    /\ cluster_votes' = [cluster_votes EXCEPT ![s] = 0]
    /\ cluster_calls' = [cluster_calls EXCEPT ![s] = {}]
    /\ UNCHANGED <<cluster_term, cluster_voted_for, cluster_active, votes_granted,
                   write_failures, campaigns>>
    /\ ClusterAlone

\* updateCandidate with no votes yet: the server votes for itself, increments its term
\* and calls every other server; a write that fails aborts the campaign.
clusterStartCampaign(s, failure) ==
    /\ cluster_state[s] = "Candidate"
    /\ cluster_votes[s] = 0
    /\ cluster_term[s] < MaxElectionTerm
    /\ campaigns < MaxCampaigns
    /\ campaigns' = campaigns + 1
    /\ LET voted == failure # "setVotedFor"
           started == failure = "none"
       IN  /\ cluster_voted_for' =
                  [cluster_voted_for EXCEPT ![s] = IF voted THEN s ELSE @]
           /\ cluster_term' = [cluster_term EXCEPT ![s] = IF started THEN @ + 1 ELSE @]
           /\ cluster_state' =
                  [cluster_state EXCEPT ![s] = IF started THEN @ ELSE "Follower"]
           /\ cluster_active' = [cluster_active EXCEPT ![s] = started]
           /\ cluster_votes' = [cluster_votes EXCEPT ![s] = IF started THEN 1 ELSE 0]
           /\ cluster_calls' =
                  [cluster_calls EXCEPT ![s] = IF started THEN ClusterServers \ {s} ELSE {}]
           /\ votes_granted' = [votes_granted EXCEPT ![s] = IF started THEN {s} ELSE @]
           /\ write_failures' = IF started THEN write_failures ELSE write_failures + 1
    /\ UNCHANGED leaders_of_term
    /\ ClusterAlone

\* The writes of updateCandidate that can fail, while the storage has failures left.
CampaignFailures ==
    {"none"} \cup
    (IF write_failures < MaxWriteFailures THEN {"setVotedFor", "setCurrentTerm"} ELSE {})

\* The writes of handleRequestVoteRequest that can fail for candidate c's request to
\* server v: setCurrentTerm and resetVotedFor are called for a newer term, setVotedFor
\* when the vote is granted.
ClusterRequestFailures(c, v) ==
    {"none"} \cup
    (IF write_failures < MaxWriteFailures
     THEN IF cluster_term[c] > cluster_term[v]
          THEN {"last", "setCurrentTerm", "resetVotedFor", "both"}
          ELSE IF /\ cluster_term[c] = cluster_term[v]
                  /\ cluster_voted_for[v] \in {NoVote, c}
               THEN {"last"}
               ELSE {}
     ELSE {})

\* The pending call of candidate c that is served or times out next.
NextCall(c) == CHOOSE v \in cluster_calls[c] : \A w \in cluster_calls[c] : v <= w

\* handleRequestVoteResponse for a call that was not successful: nothing changes but
\* the call is over.
clusterCallTimeout(c) ==
    /\ cluster_calls[c] # {}
    /\ cluster_calls' = [cluster_calls EXCEPT ![c] = @ \ {NextCall(c)}]
    /\ UNCHANGED <<cluster_state, cluster_term, cluster_voted_for, cluster_votes,
                   cluster_active, leaders_of_term, votes_granted, write_failures,
                   campaigns>>
    /\ ClusterAlone

\* A pending RequestVote call of candidate c reaches server v: v runs
\* handleRequestVoteRequest, and when it responds c runs handleRequestVoteResponse.
clusterRequestVote(c, v, failure) ==
    /\ cluster_calls[c] # {}
    /\ v = NextCall(c)
    /\ LET term == cluster_term[c]
           newer == term > cluster_term[v]
           now_term == IF newer /\ TermOk(failure) THEN term ELSE cluster_term[v]
           now_voted == IF newer /\ ResetOk(failure) THEN NoVote ELSE cluster_voted_for[v]
           stopped == newer /\ ~(TermOk(failure) /\ ResetOk(failure))
           vote_granted == /\ ~stopped
                           /\ ~(term < now_term)
                           /\ (now_voted = NoVote \/ now_voted = c)
           enabled == ~stopped /\ (vote_granted => LastOk(failure))
           resp_newer == enabled /\ now_term > cluster_term[c]
           counted == enabled /\ ~resp_newer /\ vote_granted
           v_switched == newer /\ cluster_state[v] # "Follower"
       IN  /\ cluster_state' =
                  [cluster_state EXCEPT ![v] = IF newer THEN "Follower" ELSE @,
                                        ![c] = IF resp_newer THEN "Follower" ELSE @]
           /\ cluster_term' =
                  [cluster_term EXCEPT ![v] = now_term,
                                       ![c] = IF resp_newer THEN now_term ELSE @]
           /\ cluster_voted_for' =
                  [cluster_voted_for EXCEPT
                      ![v] = IF vote_granted /\ LastOk(failure) THEN c ELSE now_voted]
           /\ cluster_active' =
                  [cluster_active EXCEPT ![v] = TRUE,
                                         ![c] = IF resp_newer THEN FALSE ELSE @]
           /\ cluster_votes' =
                  [cluster_votes EXCEPT
                      ![v] = IF v_switched THEN 0 ELSE @,
                      ![c] = IF resp_newer THEN 0 ELSE IF counted THEN @ + 1 ELSE @]
           /\ cluster_calls' =
                  [cluster_calls EXCEPT
                      ![v] = IF v_switched THEN {} ELSE @,
                      ![c] = IF resp_newer THEN {} ELSE @ \ {v}]
           /\ votes_granted' =
                  [votes_granted EXCEPT
                      ![v] = (IF now_term # cluster_term[v] THEN {} ELSE @)
                             \cup (IF enabled /\ vote_granted THEN {c} ELSE {}),
                      ![c] = IF resp_newer THEN {} ELSE @]
           /\ write_failures' =
                  IF failure = "none" THEN write_failures ELSE write_failures + 1
    /\ UNCHANGED <<leaders_of_term, campaigns>>
    /\ ClusterAlone

NextCluster ==
    \/ \E s \in Campaigners : clusterUpdateFollower(s)
    \/ \E s \in Campaigners : clusterCompleteElection(s)
    \/ \E s \in Campaigners, failure \in CampaignFailures :
           clusterStartCampaign(s, failure)
    \/ \E c \in Campaigners : clusterCallTimeout(c)
    \/ \E c \in Campaigners, v \in ClusterServers :
           /\ v \in cluster_calls[c]
           /\ \E failure \in ClusterRequestFailures(c, v) :
                  clusterRequestVote(c, v, failure)

\* ------------------------------------------------------------ SocketCANInterfaceManager
SocketAlone ==
    UNCHANGED <<execVars, clock, pc, frameVars, histVars, pubVars, treeVars,
                clientVars, serverVars, canVars, raftVars, clusterVars, interfaceVars>>

FreeDescriptors == Descriptors \ open_descriptors

\* ::socket gives the lowest descriptor that is not open.
LowestFree == CHOOSE d \in FreeDescriptors : \A e \in FreeDescriptors : d <= e

\* ir.connected_interface.reset(...): the interface the record held is destroyed,
\* and ~SocketCANInterface closes its descriptor.
DescriptorsAfterReset(interface_index) ==
    open_descriptors \ {connected_interface[interface_index]}

OpenResult(result, opened) == [called |-> TRUE, result |-> result, opened |-> opened]

\* openInterface; socket is what openSocket does, filters_ok whether
\* configureFilters returns 0, alloc_ok whether new gives an interface (it gives
\* null when out of memory in a build without exceptions).
openInterface(interface_index, socket, filters_ok, alloc_ok) ==
    /\ socket # "no_socket" => FreeDescriptors # {}
    /\ IF interface_index \notin Interfaces
       THEN /\ open_result' = OpenResult(-1, {})
            /\ UNCHANGED <<open_descriptors, connected_interface>>
       ELSE IF socket # "opened"
       THEN /\ open_result' = OpenResult(-2, IF socket = "closed" THEN {LowestFree} ELSE {})
            /\ UNCHANGED <<open_descriptors, connected_interface>>
       ELSE IF ~filters_ok
       THEN /\ open_result' = OpenResult(-3, {LowestFree})
            /\ open_descriptors' = open_descriptors \cup {LowestFree}
            /\ UNCHANGED connected_interface
       ELSE IF ~alloc_ok
       THEN /\ open_result' = OpenResult(-4, {LowestFree})
            /\ open_descriptors' = DescriptorsAfterReset(interface_index)
            /\ connected_interface' =
                   [connected_interface EXCEPT ![interface_index] = NoInterface]
       ELSE /\ open_result' = OpenResult(0, {LowestFree})
            /\ open_descriptors' = DescriptorsAfterReset(interface_index) \cup {LowestFree}
            /\ connected_interface' =
                   [connected_interface EXCEPT ![interface_index] = LowestFree]
    /\ SocketAlone

\* closeInterface of the interface openInterface gave for interface_index
closeInterface(interface_index) ==
    /\ connected_interface[interface_index] # NoInterface
    /\ open_descriptors' = DescriptorsAfterReset(interface_index)
    /\ connected_interface' = [connected_interface EXCEPT ![interface_index] = NoInterface]
    /\ open_result' = NoOpen
    /\ SocketAlone

NextSocket ==
    \/ \E interface_index \in Interfaces \cup {Cardinality(Interfaces)},
          socket \in SocketOutcomes, filters_ok \in BOOLEAN, alloc_ok \in BOOLEAN :
           openInterface(interface_index, socket, filters_ok, alloc_ok)
    \/ \E interface_index \in Interfaces : closeInterface(interface_index)

\* ------------------------------------------------------------ SocketCANInterface
\* The TX queue of one interface. A frame is the number of the sendOrEnqueue call that
\* passed it; which of the queued frames is tx_queue_.top() is left open.
InterfaceAlone ==
    UNCHANGED <<execVars, clock, pc, frameVars, histVars, pubVars, treeVars,
                clientVars, serverVars, canVars, raftVars, socketVars, clusterVars>>

\* What would be popped if every write that wrote something popped the frame.
IsPoppedOnAnyWrite(outcome) == outcome \in {"written", "partial"}

\* tx_queue_.pop() is reached when ::write has written the whole frame.
IsPopped(outcome) == outcome = "written"

\* What writeNextFrame returns for what ::write did.
WriteResult(outcome) ==
    CASE outcome = "not_possible" -> -1
      [] outcome = "failed" -> -2
      [] outcome = "partial" -> -3
      [] OTHER -> 0

\* writeNextFrame on the queue a call finds; top is the frame tx_queue_.top() gives.
writeNextFrame(call, queue, top, outcome) ==
    /\ IF queue = {}
       THEN /\ tx_queue_' = queue
            /\ frames_written' = frames_written
            /\ write_result' = [call |-> call, outcome |-> "empty", result |-> -1,
                                top |-> 0]
       ELSE /\ top \in queue
            /\ tx_queue_' = IF IsPopped(outcome) THEN queue \ {top} ELSE queue
            /\ frames_written' =
                   IF outcome = "written" THEN Append(frames_written, top)
                   ELSE frames_written
            /\ write_result' = [call |-> call, outcome |-> outcome,
                                result |-> WriteResult(outcome), top |-> top]
    /\ InterfaceAlone

\* sendOrEnqueue: tx_queue_.emplace(frame, tx_deadline); return writeNextFrame();
sendOrEnqueue(top, outcome) ==
    /\ frames_passed < MaxQueuedFrames
    /\ frames_passed' = frames_passed + 1
    /\ writeNextFrame("sendOrEnqueue", tx_queue_ \cup {frames_passed + 1}, top, outcome)

\* writeNextFrame called for the frames that are waiting.
writeQueuedFrame(top, outcome) ==
    /\ UNCHANGED frames_passed
    /\ writeNextFrame("writeNextFrame", tx_queue_, top, outcome)

NextInterface ==
    \/ \E top \in 1..MaxQueuedFrames, outcome \in WriteOutcomes :
           sendOrEnqueue(top, outcome)
    \/ \E top \in (IF tx_queue_ = {} THEN {0} ELSE tx_queue_), outcome \in WriteOutcomes :
           writeQueuedFrame(top, outcome)

\* ------------------------------------------------------------ specifications
\* One specification per recorded history: the executor is the same in all of them.
SpecExecutor == Init({}) /\ [][NextExecutor]_vars

SpecOrder == Init({"order", "prev", "invoke"}) /\ [][NextExecutor]_vars

SpecSelf == Init({"origin", "invoke"}) /\ [][NextExecutor]_vars

SpecDue == Init({"due", "origin", "spinReturn"}) /\ [][NextExecutor]_vars

SpecReturn == Init({"spinReturn"}) /\ [][NextExecutor]_vars

SpecSchedule == Init({"schedule", "invoke"}) /\ [][NextExecutor]_vars

SpecRemove == Init({"remove", "invoke"}) /\ [][NextExecutor]_vars

SpecBody == Init({"invoke", "bodyReturn"}) /\ [][NextExecutor]_vars

SpecAppend == Init({"append"}) /\ [][NextExecutor]_vars

SpecUnknown == Init({"unknown"}) /\ [][NextExecutor]_vars

SpecPublisher == Init({}) /\ [][NextPublisher]_vars

SpecPriority == Init({"priority"}) /\ [][NextPriority]_vars

SpecTree == Init({}) /\ [][NextTree]_vars

SpecClient == Init({}) /\ [][NextClient]_vars

SpecServer == Init({}) /\ [][NextServer]_vars

SpecCluster == Init({}) /\ [][NextCluster]_vars

SpecInterface == Init({}) /\ [][NextInterface]_vars

SpecCan == Init({}) /\ [][NextCan]_vars

SpecRaft == Init({}) /\ [][NextRaft]_vars

\* The same server, with the response of each request handler recorded.
SpecResponse == Init({"response"}) /\ [][NextResponse]_vars

\* The same server, with the request of each pending AppendEntries call recorded.
SpecSent == Init({"sent"}) /\ [][NextRaft]_vars

SpecSocket == Init({}) /\ [][NextSocket]_vars

\* ------------------------------------------------------------ properties
Scheduled == Range(scheduled_nodes_)

\* spinOnce calls the function of cur'
InvokeStep == pc = "loop" /\ pc' = "body"

\* No scheduled callback has an earlier execution time than node.
LeastByTime(node) ==
    \A m \in Scheduled : execution_time[node] <= execution_time[m]

\* Of the scheduled callbacks of node's execution time, node was scheduled first.
FirstOfEqual(node) ==
    \A m \in Scheduled \ {node} :
        execution_time[m] = execution_time[node]
            => Pos(schedOrder, node) < Pos(schedOrder, m)

\* C1 as stated: within one spinOnce the execution times of the invoked callbacks
\* never decrease, and callbacks of equal execution time run in the order of their
\* (last) scheduling.
C1_NonDecreasingInSpin ==
    [][InvokeStep => prev <= execution_time[cur'] /\ FirstOfEqual(cur')]_vars

\* C1 amended: every invocation of spinOnce takes the callback with the least
\* execution time among the callbacks scheduled at that moment, and among those of
\* that execution time the one that was scheduled first (FIFO).
C1_InvokesLeastScheduled ==
    [][InvokeStep => LeastByTime(cur') /\ FirstOfEqual(cur')]_vars

\* C1 witness: the callback registered second is being invoked while the one
\* registered first, scheduled after it for the same execution time, still waits.
C1_Witness ==
    /\ last.op = "invoke"
    /\ last.id = 2
    /\ 1 \in Scheduled
    /\ execution_time[1] = last.t

\* C2: a callback that schedules itself from within its own body is not invoked
\* again by the same spinOnce (no invocation consumes a schedule that the callback
\* made for itself during the current spin).
C2_NoSecondInvocation == last.op = "invoke" => ~last.was

\* C3: when spinOnce has returned, every callback that was due when the spin began
\* has been invoked exactly once by it or is scheduled again by its own body
\* (stated for the spins in which no body touched another callback).
C3_DueRanOnce ==
    (last.op = "spinReturn" /\ ~foreign) =>
        \A id \in due0 :
            \/ runs[id] = 1
            \/ (id \in Scheduled /\ origin[id] = "self")

\* C4: worst_lateness is never negative, and the next_deadline spinOnce returns is
\* later than the last clock reading the spin took.
C4_SpinResult ==
    /\ worst_lateness >= 0
    /\ (last.op = "spinReturn" /\ next_deadline # TimePointMin)
           => next_deadline > approx_now

\* C4 witness: a spin that invoked a late callback returns a deadline.
C4_Witness ==
    /\ last.op = "spinReturn"
    /\ next_deadline # TimePointMin
    /\ worst_lateness > 0

\* C5: a schedule call for a registered callback leaves it exactly once in the
\* scheduled tree, at the time of this call whatever it was scheduled for before;
\* the callback being invoked is in the scheduled tree no more, so one schedule is
\* one invocation.
C5_LastScheduleWins ==
    /\ \A id \in Ids : Count(scheduled_nodes_, id) <= 1
    /\ (last.op = "schedule" /\ last.ok) =>
           /\ Count(scheduled_nodes_, last.id) = 1
           /\ is_scheduled[last.id]
           /\ execution_time[last.id] = last.t
    /\ last.op = "invoke" => (last.id \notin Scheduled /\ ~is_scheduled[last.id])

\* C5 witness: a callback that was scheduled is scheduled again.
C5_Witness == last.op = "schedule" /\ last.ok /\ last.was

\* C6: a callback removed by removeCallbackById (its node is destroyed) is neither
\* registered nor scheduled, and no spinOnce invokes it.
C6_RemovedNeverRuns ==
    /\ \A id \in Ids :
           destroyed[id] > 0 => (id \notin registered_nodes_ /\ id \notin Scheduled)
    /\ (last.op = "remove" /\ last.ok) =>
           (destroyed[last.id] > 0 /\ last.id \notin registered_nodes_)
    /\ last.op = "invoke" => destroyed[last.id] = 0

\* C6 witness: a callback that was scheduled and due has been removed.
C6_Witness == last.op = "remove" /\ last.ok /\ last.was

\* C7: spinOnce reads no callback node after the node's destruction, and destroys
\* no node twice.
C7_NoUseAfterDestroy ==
    /\ last.op = "bodyReturn" => last.ok
    /\ \A id \in Ids : destroyed[id] <= 1

\* C8: an auto-remove callback is unregistered when it is invoked and destroyed,
\* once, when its body has returned; a persistent callback is registered and not
\* scheduled when it is invoked, and spinOnce does not destroy it.
C8_AutoRemoveAndPersistent ==
    /\ \A id \in Ids : is_auto_remove[id] => destroyed[id] <= 1
    /\ last.op = "invoke" =>
           /\ last.id \notin Scheduled
           /\ ~is_scheduled[last.id]
           /\ destroyed[last.id] = 0
           /\ (last.id \in registered_nodes_) = ~is_auto_remove[last.id]
    /\ (last.op = "bodyReturn" /\ last.was) =>
           (destroyed[last.id] = 1 /\ last.id \notin registered_nodes_)
    /\ (last.op = "bodyReturn" /\ ~last.was /\ last.ok) =>
           (destroyed[last.id] = 0 /\ last.id \in registered_nodes_)

\* C8 witness: an auto-remove callback has run and is destroyed, and a persistent
\* one has run before it in the same spin and is still registered.
C8_Witness ==
    /\ last.op = "bodyReturn" /\ last.was
    /\ \E id \in registered_nodes_ : ~is_auto_remove[id] /\ ~is_scheduled[id]

\* C9: on one subject every transfer id handed to the TX session is the one before
\* it plus one, modulo the wire width, whichever facade of the subject published;
\* no two consecutive sends carry the same transfer id.
C9_TransferIdIncrements ==
    \A s \in Subjects :
        \A i \in 2..Len(wire[s]) :
            /\ wire[s][i] = (wire[s][i - 1] + 1) % TransferIdModulo
            /\ wire[s][i] # wire[s][i - 1]

\* C9 witness: two facades share a subject whose transfer id has wrapped around.
C9_Witness ==
    \E s \in Subjects :
        /\ Cardinality(FacadesOf(s)) >= 2
        /\ Len(wire[s]) >= 2
        /\ wire[s][Len(wire[s])] = 0

\* A step that constructs the impl of subject s.
Constructs(s) == ~publisher_impl[s] /\ publisher_impl'[s]

\* C10: the constructor of an impl asks the map exactly when a map is set and the
\* local node id is known; the first transfer id of the session is the map's answer
\* if the map was asked and 0 if it was not.
C10_FirstTransferId ==
    /\ [](\A s \in Subjects :
              wire[s] # <<>> =>
                  wire[s][1] = IF queried[s] # NoTransferId THEN queried[s] ELSE 0)
    /\ [][\A s \in Subjects :
              Constructs(s) =>
                  (queried'[s] # NoTransferId)
                      = (transfer_id_map_ /\ local_node_id_known)]_vars

\* C10 witness: with a map set, one session has sent the map's answer first, and
\* another, made while the node was anonymous, has sent 0 first unasked.
C10_Witness ==
    /\ transfer_id_map_
    /\ \E s, r \in Subjects :
           /\ wire[s] # <<>> /\ queried[s] > 0 /\ wire[s][1] = queried[s]
           /\ wire[r] # <<>> /\ queried[r] = NoTransferId /\ wire[r][1] = 0

\* The transfer id a session is to use next, from what is on record of it.
NextToUse(s) ==
    IF wire[s] # <<>>
    THEN (wire[s][Len(wire[s])] + 1) % TransferIdModulo
    ELSE IF queried[s] # NoTransferId THEN queried[s] ELSE 0

\* A step that destroys the impl of subject s.
Destructs(s) == publisher_impl[s] /\ ~publisher_impl'[s]

\* C11: the destruction of the impl (the last facade of the subject goes) writes
\* to the map exactly when a map is set and the local node id is known; what it
\* writes is the next transfer id to use: the last one sent plus one, or the
\* initial value if nothing was sent. Nothing else writes to the map.
C11_DestructorWritesNext ==
    /\ [](\A s \in Subjects :
              (~publisher_impl[s] /\ written[s] # NoTransferId)
                  => written[s] = NextToUse(s))
    /\ [][\A s \in Subjects :
              /\ Destructs(s) =>
                     (written'[s] # NoTransferId)
                         = (transfer_id_map_ /\ local_node_id_known)
              /\ written'[s] # written[s] => (Destructs(s) \/ Constructs(s))]_vars

\* C11 witness: a session that started from the map's answer and sent three
\* transfers is gone and the map was written.
C11_Witness ==
    \E s \in Subjects :
        /\ ~publisher_impl[s]
        /\ queried[s] # NoTransferId
        /\ Len(wire[s]) = 3
        /\ written[s] # NoTransferId

\* C12: a subject has one TX session while it has facades and none while it has
\* not, whatever facades were made, copied, moved, assigned and destroyed: the
\* session is made with the first facade and released with the last.
C12_OneTxSession ==
    \A s \in Subjects :
        tx_sessions[s] = IF FacadesOf(s) # {} THEN 1 ELSE 0

\* C12 witness: two facades share the one session of a subject while the session
\* of the other subject has been released.
C12_Witness ==
    \E s, r \in Subjects :
        /\ Cardinality(FacadesOf(s)) >= 2
        /\ tx_sessions[s] = 1
        /\ wire[r] # <<>>
        /\ tx_sessions[r] = 0

\* C19: when the TX session's send fails, publish returns that failure, and the
\* publisher is as usable as before: its facades, its impl and its TX session are
\* what they were.
C19_SendFailureReturned ==
    /\ [](send_result \notin {"none", "success"} => publish_result = send_result)
    /\ [][send_result' \notin {"none", "success"} =>
              /\ publishers' = publishers
              /\ publisher_impl' = publisher_impl
              /\ tx_sessions' = tx_sessions]_vars

\* C19 witness: a send has failed on a session that has sent before.
C19_Witness ==
    /\ send_result = "CapacityError"
    /\ publish_result = "CapacityError"
    /\ \E s \in Subjects : publisher_impl[s] /\ Len(wire[s]) >= 2

\* C20: when the serialization fails, publish returns the codec's error and the
\* TX session's send is not called: nothing is sent and no transfer id is used.
C20_SerializationFailureReturned ==
    /\ [](codec_result \notin {"none", "success"} =>
              (publish_result = codec_result /\ send_result = "none"))
    /\ [][codec_result' \notin {"none", "success"} =>
              (wire' = wire /\ transfer_id_' = transfer_id_)]_vars

\* C20 witness: the serialization of a message has failed.
C20_Witness ==
    /\ codec_result = "SerializationBadArrayLength"
    /\ publish_result = "SerializationBadArrayLength"
    /\ \E s \in Subjects : publisher_impl[s] /\ wire[s] # <<>>

\* C13: the SessionTree holds at most one node per port id, and a node for
\* exactly the ports whose last successful ensureNewNodeFor no removeNodeFor
\* followed.
C13_OneNodePerPort ==
    /\ \A p \in Ports : Count(nodes_, p) <= 1
    /\ Range(nodes_) = ensured

\* C13 witness: a port that was in the tree is removed between two that are in.
C13_Witness ==
    /\ tree_result.call = "removeNodeFor"
    /\ Range(nodes_) = {1, 3}
    /\ 2 \in Range(visited)

\* A failure of ensureNewNodeFor
EnsureFailures == {"AlreadyExistsError", "MemoryError"}

\* C14: ensureNewNodeFor(p) returns AlreadyExists exactly when the tree has a
\* node for p, and a memory error only when it has none (the allocation failed);
\* a failing call leaves the nodes of the tree as they were, and no allocated
\* node is ever outside the tree.
C14_EnsureFailures ==
    /\ [](allocated_nodes = Len(nodes_))
    /\ [][tree_result'.call = "ensureNewNodeFor" =>
              /\ (tree_result'.result = "AlreadyExistsError")
                     = (tree_result'.port_id \in Range(nodes_))
              /\ tree_result'.result \in EnsureFailures =>
                     (nodes_' = nodes_ /\ allocated_nodes' = allocated_nodes)]_vars

\* C14 witness: both failures on a tree that has nodes.
C14_Witness ==
    /\ tree_result.call = "ensureNewNodeFor"
    /\ tree_result.result = "MemoryError"
    /\ Len(nodes_) >= 2

\* C15: a forEachNode whose action never fails visits every node of the tree
\* once, in ascending order of port id.
C15_AscendingVisit ==
    (tree_result.call = "forEachNode" /\ tree_result.result = "none") =>
        /\ Len(visited) = Len(nodes_)
        /\ Range(visited) = Range(nodes_)
        /\ \A i, j \in DOMAIN visited : i < j => visited[i] < visited[j]

\* C16: the continuation of a request is called at most once, with a response or
\* with Timeout, never with both; it is called only for a request in flight, whose
\* entry is then removed, so a cancelled request gets no call; Timeout is given
\* only when the clock has reached the deadline.
C16_ContinuationAtMostOnce ==
    /\ [](\A r \in Requests :
              /\ deliveries[r] <= 1
              /\ (deliveries[r] = 1) = (delivered[r] # "none")
              /\ delivered[r] # "none" => request_state[r] = "Idle")
    /\ [][\A r \in Requests :
              (deliveries'[r] > deliveries[r]) =>
                  /\ request_state[r] = "WaitResponse"
                  /\ request_state'[r] = "Idle"
                  /\ delivered'[r] = "Timeout" => clock >= request_deadline[r]]_vars

\* C16 witness: one request got its response, another its Timeout.
C16_Witness ==
    \E r, q \in Requests :
        /\ delivered[r] = "response"
        /\ delivered[q] = "Timeout"
        /\ clock > 0

\* C17: every request gets exactly one response, with the transfer id and the
\* priority of the request, to the node the request came from, with the deadline
\* of the request's reception timestamp plus the response timeout in force when
\* it came: 1 s until setResponseTimeout, then the value set.
C17_OneResponsePerRequest ==
    /\ [](/\ responses_sent = requests_received
          /\ request # NoTransfer =>
                 /\ response.transfer_id = request.transfer_id
                 /\ response.priority = request.priority
                 /\ response.remote_node_id = request.remote_node_id)
    /\ [][/\ requests_received' # requests_received =>
                 /\ responses_sent' = responses_sent + 1
                 /\ response'.deadline = request'.timestamp + response_timeout_
          /\ response' # response => requests_received' # requests_received
          /\ (response_timeout_' # response_timeout_
                  \/ response_timeout_ # DefaultResponseTimeout) =>
                 response_timeout_' \in Timeouts]_vars

\* C17 witness: a request received after setResponseTimeout, answered with the
\* deadline of the value set; an earlier one was answered too.
C17_Witness ==
    /\ requests_received = 2
    /\ response_timeout_ \in Timeouts
    /\ response_timeout_ # DefaultResponseTimeout
    /\ request.timestamp > 0
    /\ response.deadline = request.timestamp + response_timeout_

\* Whether the step offers frame g to media m.
Offers(m, g) ==
    \/ last_push'[m].result = "not_accepted" /\ last_push'[m].frame = g
    \/ accepted'[m] = Append(accepted[m], g)
    \/ g \in dropped'[m] /\ tx_queue'[m] = Tail(DropExpired(tx_queue[m], clock))

C21_UnknownIdIsNoOp ==
    /\ [][(last'.op = "unknown" /\ last' # last) =>
              /\ last'.id \notin registered_nodes_
              /\ registered_nodes_' = registered_nodes_
              /\ scheduled_nodes_' = scheduled_nodes_
              /\ execution_time' = execution_time
              /\ is_scheduled' = is_scheduled]_vars
    /\ [][\A i \in Ids :
              (i \in Range(scheduled_nodes_') /\ (i \notin Range(scheduled_nodes_)
                                                  \/ execution_time'[i] # execution_time[i]))
                  => i \in registered_nodes_]_vars

\* C21 witness: a removed id was scheduled in vain while another callback is
\* scheduled.
C21_Witness ==
    /\ last.op = "unknown"
    /\ last.id <= last_callback_id_
    /\ last.id \notin registered_nodes_
    /\ scheduled_nodes_ # <<>>

\* C22: appendCallback whose allocation fails returns nothing and leaves the
\* registered set, the scheduled set and last_callback_id_ as they were; one that
\* succeeds gives an id greater than every id given before, registers the node
\* and does not schedule it; a node gets scheduled by a later call only, when it
\* is registered, and spinOnce invokes scheduled nodes only.
C22_AppendCallback ==
    /\ [](\A i \in registered_nodes_ \cup Range(scheduled_nodes_) : i <= last_callback_id_)
    /\ [][/\ (last'.op = "append" /\ last' # last /\ ~last'.ok) =>
                 /\ registered_nodes_' = registered_nodes_
                 /\ scheduled_nodes_' = scheduled_nodes_
                 /\ last_callback_id_' = last_callback_id_
          /\ (last'.op = "append" /\ last' # last /\ last'.ok) =>
                 /\ last'.id > last_callback_id_
                 /\ last_callback_id_' = last'.id
                 /\ registered_nodes_' = registered_nodes_ \cup {last'.id}
                 /\ scheduled_nodes_' = scheduled_nodes_
                 /\ ~is_scheduled'[last'.id]
          /\ last_callback_id_' >= last_callback_id_
          /\ (last_callback_id_' # last_callback_id_ \/ registered_nodes_' \ registered_nodes_ # {})
                 => (last'.op = "append" /\ last'.ok)
          /\ \A i \in Ids : (i \in Range(scheduled_nodes_') /\ i \notin Range(scheduled_nodes_)) =>
                 (i \in registered_nodes_ /\ ~(last'.op = "append" /\ last' # last))
          /\ (pc = "loop" /\ pc' = "body") => cur' \in Range(scheduled_nodes_)]_vars

\* C22 witness: after two callbacks were appended and the first was scheduled,
\* an allocation failed.
C22_Witness ==
    /\ last.op = "append"
    /\ ~last.ok
    /\ last_callback_id_ = 2
    /\ registered_nodes_ = {1, 2}
    /\ scheduled_nodes_ = <<1>>

\* ------------------------------------------------------------ RaftCore properties
\* C23: appendLog appends one entry, stamped with the current term, only when the
\* server is the Leader; in any other state it returns the logic error, and
\* whenever it does not succeed the log is left as it was.
C23_AppendLogOnlyAsLeader ==
    [][append_log_result' # "none" =>
           /\ (append_log_result' = "ErrLogic") = (server_state_ # "Leader")
           /\ append_log_result' = "ok" =>
                  /\ server_state_ = "Leader"
                  /\ raft_log' = Append(raft_log, current_term)
           /\ append_log_result' # "ok" => raft_log' = raft_log]_vars

\* The Leader has appended an entry of its term.
C23_Witness ==
    /\ append_log_result = "ok"
    /\ server_state_ = "Leader"
    /\ LastIndex(raft_log) = 1
    /\ EntryAt(raft_log, 1) = current_term

\* C24: handleLocalLeadershipChange is called exactly on the switches that enter
\* or leave Leader, with true exactly when the new state is Leader; the value told
\* always differs from the one told before (false before any call), so the calls
\* alternate beginning with true, and the last value told equals isLeader().
C24_LeadershipChangeNotified ==
    /\ [](local_node_is_leader = isLeader)
    /\ [][/\ (leadership_change' # "none") =
                 ((server_state_ = "Leader") # (server_state_' = "Leader"))
          /\ leadership_change' # "none" =>
                 /\ leadership_change' = BoolName(server_state_' = "Leader")
                 /\ leadership_change' # BoolName(local_node_is_leader)]_vars

\* The monitor has been told that the local node is the leader no more.
C24_Witness ==
    /\ leadership_change = "false"
    /\ server_state_ = "Follower"
    /\ ~local_node_is_leader

\* C25: handleLogCommitOnLeader is called only while the server is the Leader,
\* once for each increment of commit_index_ by exactly one, with the entry of the
\* new commit index, and only when the local server and the followers whose match
\* index is above the old commit index are a quorum.
C25_CommitOnLeaderByQuorum ==
    [][/\ committed_entry' # NoEntry =>
              /\ server_state_ = "Leader"
              /\ server_state_' = "Leader"
              /\ commit_index_' = commit_index_ + 1
              /\ committed_entry'.index = commit_index_'
              /\ HasEntry(raft_log', commit_index_')
              /\ committed_entry'.term = EntryAt(raft_log', commit_index_')
              /\ 1 + Cardinality({n \in RemoteServers :
                                      server_match_index[n] > commit_index_}) >= QuorumSize
       /\ (server_state_ = "Leader" /\ server_state_' = "Leader"
              /\ commit_index_' # commit_index_) => committed_entry' # NoEntry]_vars

\* The Leader has committed the entry of index 1, which a follower holds.
C25_Witness ==
    /\ committed_entry.index = 1
    /\ commit_index_ = 1
    /\ server_state_ = "Leader"
    /\ \E n \in RemoteServers : server_match_index[n] = 1

\* C29: handleAppendEntriesResponse runs only while the server is the Leader and
\* handleRequestVoteResponse only while it is a Candidate, because no call stays
\* pending through a switch of state.
C29_ResponsesOnlyInTheirState ==
    /\ response_handled.handler = "AppendEntries" => response_handled.state = "Leader"
    /\ response_handled.handler = "RequestVote" => response_handled.state = "Candidate"
    /\ append_entries_calls # {} => server_state_ = "Leader"
    /\ request_vote_calls # {} => server_state_ = "Candidate"

\* The Leader has handled the response of one server to AppendEntries while its
\* call to the other is pending.
C29_Witness ==
    /\ response_handled = [handler |-> "AppendEntries", state |-> "Leader"]
    /\ server_state_ = "Leader"
    /\ append_entries_calls # {}

\* C30: commit_index_ never exceeds the index of the last entry of the log.
C30_CommitWithinLog == commit_index_ <= LastIndex(raft_log)

\* ------------------------------------------------------------ SocketCANInterfaceManager properties
\* C26: whenever openInterface returns a failure, every socket descriptor opened
\* during the call has been closed again and the interface record is as it was
\* before the call.
C26_FailedOpenUnwinds ==
    [][(open_result'.called /\ open_result'.result < 0) =>
           /\ open_result'.opened \cap open_descriptors' = {}
           /\ connected_interface' = connected_interface]_vars

\* ------------------------------------------------------------ SessionTree teardown
\* C27: after any sequence of ensureNewNodeFor and removeNodeFor calls followed by
\* the destruction of the SessionTree, every node that was allocated has been
\* destroyed and deallocated exactly once: no node is left allocated, and the
\* memory resource has got back as many bytes as it gave. Before that, what it
\* gave and has not got back is the nodes of the tree.
C27_TreeReturnsItsMemory ==
    /\ total_allocated_bytes = total_deallocated_bytes + allocated_nodes
    /\ allocated_nodes >= 0
    /\ tree_destroyed =>
           /\ allocated_nodes = 0
           /\ total_allocated_bytes = total_deallocated_bytes

\* A tree was destroyed after three nodes had been allocated for it.
C27_Witness ==
    /\ tree_destroyed
    /\ tree_result.call = "~SessionTree"
    /\ total_allocated_bytes = 3
    /\ total_deallocated_bytes = 3

\* ------------------------------------------------------------ publisher priorities
\* C28: each facade has a priority of its own. A new facade has Nominal; a facade
\* made or assigned by copy or by move has the priority its source had; setPriority
\* on a facade gives it the priority and leaves the priority of every other
\* facade; every send carries the priority of the facade that published and the
\* deadline that publish was given.
C28_PriorityPerFacade ==
    [][LET call == facade_call' IN
       /\ call.op = "makePublisher" => priority_'[call.facade] = "Nominal"
       /\ call.op \in {"copy", "move", "assign"} =>
              LET to == IF call.op = "assign" THEN call.facade ELSE call.other
                  from == IF call.op = "assign" THEN call.other ELSE call.facade
              IN priority_'[to] = priority_[from]
       /\ call.op = "setPriority" =>
              /\ priority_'[call.facade] = call.priority
              /\ \A g \in Facades \ {call.facade} : priority_'[g] = priority_[g]
       /\ (call.op = "publish" /\ send_result' # "none") =>
              /\ metadata'.priority = priority_[call.facade]
              /\ metadata'.deadline = call.deadline
              /\ priority_' = priority_]_vars

\* A facade that shares its publisher with a facade of another priority has
\* published.
C28_Witness ==
    /\ facade_call.op = "publish"
    /\ send_result = "success"
    /\ metadata = [priority |-> "Slow", deadline |-> MaxTime]
    /\ \E f, g \in Facades :
           /\ f < g
           /\ publishers[f] = publishers[g]
           /\ priority_[f] = "Nominal"
           /\ priority_[g] = "Slow"
           /\ facade_call.facade = g

\* C35: an AppendEntries request of a known server whose term is below the
\* current term is answered with success = false and the current term, and it
\* changes neither the log, commit_index_, the current term, votedFor nor the
\* state of the server.
C35_StaleAppendEntriesRejected ==
    [][(/\ rpc_response'.handler = "AppendEntries"
        /\ rpc_response'.known
        /\ rpc_response'.request_term < current_term) =>
           (/\ rpc_response'.enabled
            /\ ~rpc_response'.granted
            /\ rpc_response'.term = current_term
            /\ UNCHANGED <<raft_log, commit_index_, current_term, voted_for,
                           server_state_>>)]_vars

\* A Leader with an entry of its own in the log has answered a request of a
\* stale term.
C35_Witness ==
    /\ rpc_response.handler = "AppendEntries"
    /\ rpc_response.known
    /\ rpc_response.request_term < current_term
    /\ rpc_response.enabled
    /\ server_state_ = "Leader"
    /\ LastIndex(raft_log) > 0

\* C36: an AppendEntries or RequestVote request of a node that is not a known
\* server of the cluster changes nothing of RaftCore (term, votedFor, log,
\* commit_index_, state, activity timestamp, active mode), and no response is
\* sent to it.
C36_UnknownSourceIgnored ==
    [][(rpc_response'.handler # "none" /\ ~rpc_response'.known) =>
           (/\ ~rpc_response'.enabled
            /\ ~rpc_response'.activity
            /\ UNCHANGED <<current_term, voted_for, raft_log, commit_index_,
                           server_state_, active_mode_>>)]_vars

\* C32: state machine safety, as one server sees it: an entry at or below
\* commit_index_ is never removed from the log nor replaced by another, so the
\* entries two servers have committed at one index are the same.
C32_CommittedEntriesStay ==
    [][\A i \in 0..commit_index_ :
           HasEntry(raft_log, i) =>
               /\ HasEntry(raft_log', i)
               /\ EntryAt(raft_log', i) = EntryAt(raft_log, i)]_vars

\* C34: on a Leader, the match index recorded for a follower by a successful
\* AppendEntries response is never above prev_log_index + the number of entries
\* of the request that was sent to that follower, which is as far as the response
\* shows its log to be the leader's.
C34_MatchIndexWithinItsRequest ==
    [][\A n \in RemoteServers :
           (/\ response_handled'.handler = "AppendEntries"
            /\ server_state_ = "Leader"
            /\ server_state_' = "Leader"
            /\ server_match_index'[n] # server_match_index[n]) =>
               server_match_index'[n] <=
                   requests_sent[n].prev_log_index + requests_sent[n].num_entries]_vars

\* ------------------------------------------------------------ C31
\* C31: election safety. In every term at most one server of the cluster is ever
\* leader: the servers that won an election in a term, each with a quorum of votes,
\* are at most one.
C31_ElectionSafety ==
    \A t \in 1..MaxElectionTerm : Cardinality(leaders_of_term[t]) <= 1

\* ------------------------------------------------------------ C33
\* C33: a server grants its vote to at most one candidate per term, whatever
\* persistent-state writes have failed before.
C33_OneVotePerTerm ==
    \A s \in ClusterServers : Cardinality(votes_granted[s]) <= 1

\* ------------------------------------------------------------ C37
\* C37: when spinOnce has returned, next_deadline is the least execution time of
\* the callbacks that are still scheduled, and it is absent exactly when no
\* callback is scheduled.
C37_NextDeadlineIsLeast ==
    last.op = "spinReturn" =>
        /\ (next_deadline = TimePointMin) = (Scheduled = {})
        /\ \A id \in Scheduled : next_deadline <= execution_time[id]
        /\ Scheduled # {} => \E id \in Scheduled : next_deadline = execution_time[id]

\* C37 witness: spinOnce has returned the earlier of two different execution times.
C37_Witness ==
    /\ last.op = "spinReturn"
    /\ \E id \in Scheduled : next_deadline = execution_time[id]
    /\ \E id \in Scheduled : next_deadline < execution_time[id]

\* ------------------------------------------------------------ C38
\* C38: an auto-remove callback is unregistered before its body runs. During its
\* body a schedule call for its id finds no such id (it schedules nothing, and the
\* only call recorded for the id is one that failed), no call registers or destroys
\* it, it is destroyed, once, when the body returns, and an id that is no longer
\* registered is never registered again, so the callback is invoked at most once.
C38_AutoRemoveGoneInBody ==
    [][/\ (pc = "body" /\ is_auto_remove[cur]) =>
              /\ cur \notin registered_nodes_'
              /\ cur \notin Range(scheduled_nodes_')
              /\ (pc' = "body" /\ last'.id = cur) => (last'.op = "unknown" /\ ~last'.ok)
              /\ destroyed[cur] = 0
              /\ destroyed'[cur] = (IF pc' = "body" THEN 0 ELSE 1)
       /\ (InvokeStep /\ is_auto_remove[cur']) =>
              /\ destroyed[cur'] = 0
              /\ cur' \in registered_nodes_
              /\ cur' \notin registered_nodes_'
       /\ \A id \in Ids :
              (id <= last_callback_id_ /\ id \notin registered_nodes_)
                  => id \notin registered_nodes_'
      ]_vars

\* C38 witness: the body of an auto-remove callback has called
\* scheduleCallbackByIdAt for its own id, and the call returned false.
C38_Witness ==
    /\ pc = "body"
    /\ is_auto_remove[cur]
    /\ last.op = "unknown"
    /\ last.id = cur
    /\ ~last.ok
    /\ destroyed[cur] = 0

\* ------------------------------------------------------------ C39
\* The queue writeNextFrame works on in this step: the TX queue, with the frame
\* passed when the call is sendOrEnqueue.
C39_QueueOfCall ==
    IF write_result'.call = "sendOrEnqueue"
    THEN tx_queue_ \cup {frames_passed'}
    ELSE tx_queue_

\* C39: a frame passed to sendOrEnqueue is in the TX queue before the write is
\* attempted and stays there until a write of the whole frame succeeds:
\* writeNextFrame removes the top frame iff the whole frame was written (and then
\* returns 0), every failure (-1, -2, -3, or an empty queue) leaves the queue as it
\* was, and every frame passed is either in the queue or written once, never both.
C39_NoFrameLostOrWrittenTwice ==
    [][/\ write_result'.call = "sendOrEnqueue" =>
              (frames_passed' = frames_passed + 1 /\ C39_QueueOfCall # {})
       /\ write_result'.call = "writeNextFrame" => frames_passed' = frames_passed
       /\ IF write_result'.outcome = "written"
          THEN /\ write_result'.result = 0
               /\ write_result'.top \in C39_QueueOfCall
               /\ tx_queue_' = C39_QueueOfCall \ {write_result'.top}
               /\ frames_written' = Append(frames_written, write_result'.top)
          ELSE /\ write_result'.result \in {-1, -2, -3}
               /\ tx_queue_' = C39_QueueOfCall
               /\ frames_written' = frames_written
       /\ (write_result'.outcome = "empty") = (C39_QueueOfCall = {})
       /\ \A frame \in 1..frames_passed' :
              (frame \in tx_queue_') # (Count(frames_written', frame) = 1)
       /\ \A frame \in 1..frames_passed' : Count(frames_written', frame) <= 1
      ]_vars

\* C39 witness: after a frame was written, sendOrEnqueue has passed another one and
\* its write, of a frame that was waiting already, was partial: both frames wait.
C39_Witness ==
    /\ write_result.call = "sendOrEnqueue"
    /\ write_result.outcome = "partial"
    /\ write_result.top # frames_passed
    /\ {write_result.top, frames_passed} \subseteq tx_queue_
    /\ frames_written # <<>>
====
